---- MODULE Spec2Model ----
(***************************************************************************)
(* EchoNate v2.0 core background service worker (class EchoNateCore).     *)
(*                                                                         *)
(* The state is the fields of the single EchoNateCore instance, the        *)
(* chrome.storage.local area it persists to, and the browser's cookie      *)
(* jars.  Every message handler is a function from (message, state) to    *)
(* (state, returned value, thrown error or the browser call it is         *)
(* suspended at); the onMessage listener turns that into the response the  *)
(* sender receives.  A handler suspended at a browser call runs on in a    *)
(* later step, and other messages are handled in between.                  *)
(*                                                                         *)
(* JavaScript values are strings: "true" and "false" are the booleans,     *)
(* "undefined" is a missing field, every other string is itself.           *)
(***************************************************************************)
EXTENDS Integers, Sequences, FiniteSets, TLC

VARIABLES mode, config, credentials, auditLog, captchaProviders, stored,
          cookies, clock, req, resp, assistant, trail, pending

vars == <<mode, config, credentials, auditLog, captchaProviders, stored,
          cookies, clock, req, resp, assistant, trail, pending>>

\* Number of listener invocations explored (also the reading of Date.now()).
MaxSteps == 3

Undefined == "undefined"

\* JavaScript truthiness of the values the model uses.
Truthy(v) == v \notin {"false", "undefined", "null", ""}

\* a && b
JsAnd(a, b) == IF Truthy(a) THEN b ELSE a

\* a || b
JsOr(a, b) == IF Truthy(a) THEN a ELSE b

Modes == {"standard", "advanced", "research"}

DefaultConfig ==
    [ userConfirmation    |-> "true",
      actionLogging       |-> "true",
      rateLimitStrategy   |-> "respectful",
      captchaMode         |-> "manual",
      formAutoSubmit      |-> "false",
      sessionVerification |-> "true",
      fingerprintMethod   |-> "normalization",
      proxyEnabled        |-> "false",
      challengeStrategy   |-> "wait",
      auditStorage        |-> "local",
      termsAccepted       |-> "false" ]

ConfigKeys == DOMAIN DefaultConfig

\* The captcha providers registered at startup (cost in 1/10000 dollar).
InitialCaptchaProviders ==
    [ p \in {"2captcha", "anticaptcha", "capsolver"} |->
        [ apiKey |-> "null",
          cost   |-> CASE p = "2captcha"    -> 25
                       [] p = "anticaptcha" -> 20
                       [] p = "capsolver"   -> 30 ] ]

\* Browser tabs and the window each belongs to (chrome.tabs.get).
TabWindow == (1 :> "w1") @@ (2 :> "w1") @@ (3 :> "w2")

TabIds == DOMAIN TabWindow

----------------------------------------------------------------------------
(* Risk scorer *)

TotalRisk(cfg) ==
      (IF Truthy(cfg.userConfirmation) THEN 0 ELSE 3)
    + (IF Truthy(cfg.actionLogging) THEN 0 ELSE 2)
    + (IF cfg.rateLimitStrategy = "respectful" THEN 0
       ELSE IF cfg.rateLimitStrategy = "aggressive" THEN 1 ELSE 2)
    + (IF cfg.captchaMode = "manual" THEN 0
       ELSE IF cfg.captchaMode = "assisted" THEN 1 ELSE 2)
    + (IF Truthy(cfg.formAutoSubmit) THEN 1 ELSE 0)
    + (IF Truthy(cfg.sessionVerification) THEN 0 ELSE 2)
    + (IF cfg.fingerprintMethod = "normalization" THEN 0
       ELSE IF cfg.fingerprintMethod = "randomization" THEN 1 ELSE 2)
    + (IF cfg.challengeStrategy = "wait" THEN 0
       ELSE IF cfg.challengeStrategy = "assist" THEN 1 ELSE 2)

\* Variant: a total of 2 is already MEDIUM.
GetSafetyLevelStrict(s) ==
    IF TotalRisk(s.config) < 2 THEN "LOW"
    ELSE IF TotalRisk(s.config) <= 8 THEN "MEDIUM"
    ELSE "HIGH"

\* Variant: research mode counts as a risk factor of its own.
GetSafetyLevelModeAware(s) ==
    LET totalRisk == TotalRisk(s.config) + (IF s.mode = "research" THEN 2 ELSE 0)
    IN  IF totalRisk <= 2 THEN "LOW"
        ELSE IF totalRisk <= 8 THEN "MEDIUM"
        ELSE "HIGH"

\* getSafetyLevel() on the instance s: riskFactors are summed from
\* this.config and nothing is assigned.
GetSafetyLevel(s) ==
    IF TotalRisk(s.config) <= 2 THEN "LOW"
    ELSE IF TotalRisk(s.config) <= 8 THEN "MEDIUM"
    ELSE "HIGH"

----------------------------------------------------------------------------
(* The instance state as one value, and what a handler hands back *)

\* stored is the storage area as it is; writes are the set calls the running
\* code has made in this task, in call order; at is where the handler runs
\* from ("start", or the label of the await it resumes after); rnd are the
\* values the coming Math.random() calls return.
Cur ==
    [ mode        |-> mode,
      config      |-> config,
      credentials |-> credentials,
      auditLog    |-> auditLog,
      captchaProviders |-> captchaProviders,
      stored      |-> stored,
      cookies     |-> cookies,
      now         |-> clock,
      writes      |-> <<>>,
      at          |-> "start",
      rnd         |-> <<>> ]

\* A chrome.storage.local.set({ key: value }) once completed.
StorageSet(st, key, value) == (key :> value) @@ st

\* chrome.storage.local.set({ key: value }) called: the write is under way.
IssueSet(writes, key, value) == Append(writes, [ key |-> key, value |-> value ])

\* The area once every write of the sequence has completed.
RECURSIVE ApplyWrites(_, _)
ApplyWrites(st, writes) ==
    IF writes = <<>> THEN st
    ELSE ApplyWrites(StorageSet(st, Head(writes).key, Head(writes).value),
                     Tail(writes))

\* The handler returned the object v.
Return(s, v) == [st |-> s, thrown |-> FALSE, value |-> v]

\* The handler fell off its end: the promise resolves to undefined.
ReturnUndefined(s) == [st |-> s, thrown |-> FALSE, value |-> [undefined |-> TRUE]]

\* The handler threw new Error(m) (or the runtime threw).
Throw(s, m) == [st |-> s, thrown |-> TRUE, value |-> [message |-> m]]

\* The handler is suspended at an await of a browser call ("storage": the
\* set call it has just made, "tabs": a chrome.tabs.get) and runs on from
\* the label once the call has completed.
Await(s, call, label) ==
    [st |-> s, thrown |-> FALSE, value |-> [awaiting |-> call, resume |-> label]]

Suspended(r) == ~r.thrown /\ "awaiting" \in DOMAIN r.value

----------------------------------------------------------------------------
(* Audit log *)

\* The values Math.random().toString(36).substr(2, 9) is taken to return.
RandomParts == {1, 2, 3}

\* The draws a run that consumes n of them can get.
RandomTapes(n) == [ 1..n -> RandomParts ]

\* A tape long enough for every run, to count the draws a run consumes.
FullTape == <<1, 1>>

Consumed(s) == Len(FullTape) - Len(s.rnd)

\* `evt_${Date.now()}_${random}`
GenerateEventId(now, random) == <<"evt", now, random>>

AuditEvent(s, action, details) ==
    [ id          |-> GenerateEventId(s.now, Head(s.rnd)),
      timestamp   |-> s.now,
      action      |-> action,
      details     |-> details,
      mode        |-> s.mode,
      safetyLevel |-> GetSafetyLevel(s) ]

\* Variant: the new event replaces the log instead of being pushed onto it.
LogActionOverwrite(s, action, details) ==
    IF ~Truthy(s.config.actionLogging) THEN s
    ELSE LET newLog == <<AuditEvent(s, action, details)>>
         IN  [ s EXCEPT !.auditLog = newLog,
                        !.rnd = Tail(@),
                        !.writes = IF s.config.auditStorage = "local"
                                   THEN IssueSet(s.writes, "auditLog", newLog)
                                   ELSE s.writes ]

\* Variant: the actionLogging early return is missing.
LogActionUnconditional(s, action, details) ==
    LET newLog == Append(s.auditLog, AuditEvent(s, action, details))
    IN  [ s EXCEPT !.auditLog = newLog,
                   !.rnd = Tail(@),
                   !.writes = IF s.config.auditStorage = "local"
                              THEN IssueSet(s.writes, "auditLog", newLog)
                              ELSE s.writes ]

\* Variant: the new event is put at the head of the log.
LogActionPrepend(s, action, details) ==
    IF ~Truthy(s.config.actionLogging) THEN s
    ELSE LET newLog == <<AuditEvent(s, action, details)>> \o s.auditLog
         IN  [ s EXCEPT !.auditLog = newLog,
                        !.rnd = Tail(@),
                        !.writes = IF s.config.auditStorage = "local"
                                   THEN IssueSet(s.writes, "auditLog", newLog)
                                   ELSE s.writes ]

LogAction(s, action, details) ==
    IF ~Truthy(s.config.actionLogging) THEN s
    ELSE LET newLog == Append(s.auditLog, AuditEvent(s, action, details))
         IN  [ s EXCEPT !.auditLog = newLog,
                        !.rnd = Tail(@),
                        !.writes = IF s.config.auditStorage = "local"
                                   THEN IssueSet(s.writes, "auditLog", newLog)
                                   ELSE s.writes ]

----------------------------------------------------------------------------
(* The audit trail of the audit-trail design (AuditTrail, CHANGE_LOG C011) *)

\* The fields as the constructor sets them.  currentMode is assigned by no
\* code of the class and is read by logAction; persisted is the copy that
\* persistToLocalStorage and clearLocalStorage keep.
AuditTrailConstructed ==
    [ events           |-> <<>>,
      storage_location |-> "local",
      currentMode      |-> Undefined,
      persisted        |-> <<>> ]

\* new Date(now).toISOString()
ToISOString(now) == <<"ISO-8601", now>>

\* persistToLocalStorage(event): the event joins the persisted copy.
PersistToLocalStorage(t, event) == [ t EXCEPT !.persisted = Append(@, event) ]

\* clearLocalStorage(): the persisted copy is removed.
ClearLocalStorage(t) == [ t EXCEPT !.persisted = <<>> ]

\* Variant: the log is wiped whatever the confirmation is.
ClearAuditLogUnconfirmed(userConfirmation, t) ==
    ClearLocalStorage([ t EXCEPT !.events = <<>> ])

\* clearAuditLog(userConfirmation)
ClearAuditLog(userConfirmation, t) ==
    IF Truthy(userConfirmation)
    THEN ClearLocalStorage([ t EXCEPT !.events = <<>> ])
    ELSE t

\* logAction(action_type, details) at the time now: the event is pushed
\* whatever the settings are, then persisted. The class gives generateEventId
\* no body; the id is built as EchoNateCore.generateEventId builds it, random
\* being its random part.
AuditTrailLogAction(t, action_type, details, now, random) ==
    LET event == [ id              |-> GenerateEventId(now, random),
                   timestamp       |-> ToISOString(now),
                   action          |-> action_type,
                   details         |-> details,
                   mode            |-> t.currentMode,
                   user_authorized |-> TRUE ]
    IN  PersistToLocalStorage([ t EXCEPT !.events = Append(@, event) ], event)

\* exportAuditLog()
ExportAuditLog(t) ==
    [ events  |-> t.events,
      format  |-> "JSON",
      purpose |-> "User audit and compliance" ]

----------------------------------------------------------------------------
(* Message handlers *)

HandleStatusRequest(msg, s) ==
    Return(s, [ success |-> TRUE,
                status  |-> [ mode          |-> s.mode,
                              config        |-> s.config,
                              safetyLevel   |-> GetSafetyLevel(s),
                              termsAccepted |-> s.config.termsAccepted,
                              auditLogSize  |-> Len(s.auditLog) ] ])

\* Variant: the target mode is not validated.
HandleModeChangeUnvalidated(msg, s) ==
    IF s.at = "start"
    THEN LET s1 == LogAction(s, "mode_change",
                       [ from          |-> s.mode,
                         to            |-> msg.newMode,
                         justification |-> JsOr(msg.justification, "User requested"),
                         timestamp     |-> s.now ])
             s2 == [ s1 EXCEPT !.mode = msg.newMode,
                               !.writes = IssueSet(s1.writes, "mode", msg.newMode) ]
         IN  Await(s2, "storage", "mode_stored")
    ELSE Return(s, [ success     |-> TRUE,
                     mode        |-> s.mode,
                     safetyLevel |-> GetSafetyLevel(s) ])

\* Up to the await of the mode write the handler validates, logs and
\* assigns; the response is built when it runs on, from this.mode and
\* this.config as they are then.
HandleModeChange(msg, s) ==
    IF s.at = "start"
    THEN IF msg.newMode \notin Modes THEN Throw(s, "Invalid mode")
         ELSE LET s1 == LogAction(s, "mode_change",
                            [ from          |-> s.mode,
                              to            |-> msg.newMode,
                              justification |-> JsOr(msg.justification, "User requested"),
                              timestamp     |-> s.now ])
                  s2 == [ s1 EXCEPT !.mode = msg.newMode,
                                    !.writes = IssueSet(s1.writes, "mode", msg.newMode) ]
              IN  Await(s2, "storage", "mode_stored")
    ELSE Return(s, [ success     |-> TRUE,
                     mode        |-> s.mode,
                     safetyLevel |-> GetSafetyLevel(s) ])

\* Variant: the key is not validated.
HandleConfigUpdateUnvalidated(msg, s) ==
    IF s.at = "start"
    THEN LET s1 == LogAction(s, "config_update",
                       [ key       |-> msg.configKey,
                         oldValue  |-> IF msg.configKey \in DOMAIN s.config
                                       THEN s.config[msg.configKey] ELSE Undefined,
                         newValue  |-> msg.value,
                         timestamp |-> s.now ])
             cfg == (msg.configKey :> msg.value) @@ s1.config
             s2 == [ s1 EXCEPT !.config = cfg,
                               !.writes = IssueSet(s1.writes, "config", cfg) ]
         IN  Await(s2, "storage", "config_stored")
    ELSE Return(s, [ success     |-> TRUE,
                     config      |-> s.config,
                     safetyLevel |-> GetSafetyLevel(s) ])

\* Variant: the level reported is the one of the configuration without the
\* setting just updated.
HandleConfigUpdateStaleLevel(msg, s) ==
    IF s.at = "start"
    THEN IF msg.configKey \notin DOMAIN s.config
         THEN Throw(s, "Invalid configuration key")
         ELSE LET s1 == LogAction(s, "config_update",
                            [ key       |-> msg.configKey,
                              oldValue  |-> s.config[msg.configKey],
                              newValue  |-> msg.value,
                              timestamp |-> s.now ])
                  cfg == [ s1.config EXCEPT ![msg.configKey] = msg.value ]
                  s2 == [ s1 EXCEPT !.config = cfg,
                                    !.writes = IssueSet(s1.writes, "config", cfg) ]
              IN  Await(s2, "storage", "config_stored")
    ELSE Return(s, [ success     |-> TRUE,
                     config      |-> s.config,
                     safetyLevel |-> GetSafetyLevel(
                         [ s EXCEPT !.config[msg.configKey] =
                                        DefaultConfig[msg.configKey] ]) ])

\* Up to the await of the config write the handler validates, logs and
\* assigns; the response is built when it runs on, from this.config as it
\* is then.
HandleConfigUpdate(msg, s) ==
    IF s.at = "start"
    THEN IF msg.configKey \notin DOMAIN s.config
         THEN Throw(s, "Invalid configuration key")
         ELSE LET s1 == LogAction(s, "config_update",
                            [ key       |-> msg.configKey,
                              oldValue  |-> s.config[msg.configKey],
                              newValue  |-> msg.value,
                              timestamp |-> s.now ])
                  cfg == [ s1.config EXCEPT ![msg.configKey] = msg.value ]
                  s2 == [ s1 EXCEPT !.config = cfg,
                                    !.writes = IssueSet(s1.writes, "config", cfg) ]
              IN  Await(s2, "storage", "config_stored")
    ELSE Return(s, [ success     |-> TRUE,
                     config      |-> s.config,
                     safetyLevel |-> GetSafetyLevel(s) ])

\* Variant: the mode check lets every elevated mode through.
AttemptChallengeBypassAnyElevated(url, challengeType, s) ==
    IF s.mode = "standard"
    THEN Throw(s, "Challenge bypass requires research mode")
    ELSE Return(s, [ success |-> TRUE,
                     action  |-> "bypass_attempted",
                     message |-> "Challenge bypass initiated" ])

\* Variant: a denied bypass puts the strategy back to wait.
AttemptChallengeBypassResetting(url, challengeType, s) ==
    IF s.mode # "research"
    THEN LET cfg == [ s.config EXCEPT !.challengeStrategy = "wait" ]
         IN  Throw([ s EXCEPT !.config = cfg,
                              !.writes = IssueSet(s.writes, "config", cfg) ],
                   "Challenge bypass requires research mode")
    ELSE LET s1 == LogAction(s, "challenge_bypass_attempt",
                       [ url           |-> url,
                         challengeType |-> challengeType,
                         timestamp     |-> s.now ])
         IN  Return(s1, [ success |-> TRUE,
                          action  |-> "bypass_attempted",
                          message |-> "Challenge bypass initiated" ])

AttemptChallengeBypass(url, challengeType, s) ==
    IF s.mode # "research"
    THEN Throw(s, "Challenge bypass requires research mode")
    ELSE LET s1 == LogAction(s, "challenge_bypass_attempt",
                       [ url           |-> url,
                         challengeType |-> challengeType,
                         timestamp     |-> s.now ])
         IN  Return(s1, [ success |-> TRUE,
                          action  |-> "bypass_attempted",
                          message |-> "Challenge bypass initiated" ])

HandleChallengeRequest(msg, s) ==
    LET s1 == LogAction(s, "challenge_request",
                  [ url           |-> msg.url,
                    challengeType |-> msg.challengeType,
                    strategy      |-> s.config.challengeStrategy,
                    timestamp     |-> s.now ])
    IN  CASE s1.config.challengeStrategy = "wait" ->
                Return(s1, [ success |-> TRUE,
                             action  |-> "notify_user",
                             message |-> msg.challengeType \o
                                 " challenge detected. Please complete manually." ])
          [] s1.config.challengeStrategy = "assist" ->
                Return(s1, [ success |-> TRUE,
                             action  |-> "inject_patterns",
                             message |-> "Injecting human-like patterns to assist with challenge" ])
          [] s1.config.challengeStrategy = "bypass" ->
                AttemptChallengeBypass(msg.url, msg.challengeType, s1)
          [] OTHER -> ReturnUndefined(s1)

SolveCaptcha(image, type, provider, s) ==
    IF \/ provider \notin DOMAIN s.captchaProviders
       \/ ~Truthy(s.captchaProviders[provider].apiKey)
    THEN Throw(s, "CAPTCHA provider " \o provider \o " not configured")
    ELSE LET solverConfig == s.captchaProviders[provider]
             s1 == LogAction(s, "captcha_solve_attempt",
                       [ type      |-> type,
                         provider  |-> provider,
                         cost      |-> solverConfig.cost,
                         timestamp |-> s.now ])
         IN  Return(s1, [ success  |-> TRUE,
                          solution |-> "CAPTCHA_SOLUTION_TOKEN",
                          provider |-> provider,
                          cost     |-> solverConfig.cost ])

\* Variant: a request once made below research mode stays denied.
HandleCaptchaRequestStickyDenial(msg, s) ==
    LET s1 == LogAction(s, "captcha_request",
                  [ type      |-> msg.type,
                    provider  |-> msg.provider,
                    mode      |-> s.config.captchaMode,
                    timestamp |-> s.now ])
    IN  CASE s1.config.captchaMode = "manual" ->
                Return(s1, [ success |-> TRUE,
                             action  |-> "notify_user",
                             message |-> "CAPTCHA detected. Please solve manually." ])
          [] s1.config.captchaMode = "assisted" ->
                Return(s1, [ success  |-> TRUE,
                             action   |-> "request_confirmation",
                             message  |-> "CAPTCHA detected. Solve using external service?",
                             provider |-> msg.provider,
                             cost     |-> IF msg.provider \in DOMAIN s1.captchaProviders
                                          THEN s1.captchaProviders[msg.provider].cost
                                          ELSE 0 ])
          [] s1.config.captchaMode = "automated" ->
                IF \/ s1.mode # "research"
                   \/ \E i \in 1..Len(s1.auditLog) :
                         /\ s1.auditLog[i].action = "captcha_request"
                         /\ s1.auditLog[i].mode # "research"
                THEN Throw(s1, "Automated CAPTCHA solving requires research mode")
                ELSE SolveCaptcha(msg.image, msg.type, msg.provider, s1)
          [] OTHER -> ReturnUndefined(s1)

\* Variant: in research mode the manual level is treated as automated.
HandleCaptchaRequestManualSolves(msg, s) ==
    LET s1 == LogAction(s, "captcha_request",
                  [ type      |-> msg.type,
                    provider  |-> msg.provider,
                    mode      |-> s.config.captchaMode,
                    timestamp |-> s.now ])
    IN  CASE s1.config.captchaMode = "manual" /\ s1.mode # "research" ->
                Return(s1, [ success |-> TRUE,
                             action  |-> "notify_user",
                             message |-> "CAPTCHA detected. Please solve manually." ])
          [] s1.config.captchaMode = "assisted" ->
                Return(s1, [ success  |-> TRUE,
                             action   |-> "request_confirmation",
                             message  |-> "CAPTCHA detected. Solve using external service?",
                             provider |-> msg.provider,
                             cost     |-> IF msg.provider \in DOMAIN s1.captchaProviders
                                          THEN s1.captchaProviders[msg.provider].cost
                                          ELSE 0 ])
          [] s1.config.captchaMode \in {"manual", "automated"} ->
                IF s1.mode # "research"
                THEN Throw(s1, "Automated CAPTCHA solving requires research mode")
                ELSE SolveCaptcha(msg.image, msg.type, msg.provider, s1)
          [] OTHER -> ReturnUndefined(s1)

HandleCaptchaRequest(msg, s) ==
    LET s1 == LogAction(s, "captcha_request",
                  [ type      |-> msg.type,
                    provider  |-> msg.provider,
                    mode      |-> s.config.captchaMode,
                    timestamp |-> s.now ])
    IN  CASE s1.config.captchaMode = "manual" ->
                Return(s1, [ success |-> TRUE,
                             action  |-> "notify_user",
                             message |-> "CAPTCHA detected. Please solve manually." ])
          [] s1.config.captchaMode = "assisted" ->
                Return(s1, [ success  |-> TRUE,
                             action   |-> "request_confirmation",
                             message  |-> "CAPTCHA detected. Solve using external service?",
                             provider |-> msg.provider,
                             cost     |-> IF msg.provider \in DOMAIN s1.captchaProviders
                                          THEN s1.captchaProviders[msg.provider].cost
                                          ELSE 0 ])
          [] s1.config.captchaMode = "automated" ->
                IF s1.mode # "research"
                THEN Throw(s1, "Automated CAPTCHA solving requires research mode")
                ELSE SolveCaptcha(msg.image, msg.type, msg.provider, s1)
          [] OTHER -> ReturnUndefined(s1)

\* const sourceTab / targetTab are declared inside the if-block of
\* handleSessionSync and read after it, where they are not in scope.
TabsInScope == FALSE

\* `aud_${Date.now()}_${random}`
GenerateAuditId(now, random) == <<"aud", now, random>>

\* handleSessionSync from the end of its ownership check on.
SessionSyncChecked(msg, s) ==
    LET s1 == LogAction(s, "session_sync",
                  [ sourceTabId |-> msg.sourceTabId,
                    targetTabId |-> msg.targetTabId,
                    timestamp   |-> s.now ])
    IN  IF ~TabsInScope
        THEN Throw(s1, "sourceTab is not defined")
        ELSE LET copied == s1.cookies[msg.sourceTabId]
                 s2 == [ s1 EXCEPT !.cookies[msg.targetTabId] = @ \cup copied,
                                   !.rnd = Tail(@) ]
             IN  Return(s2, [ success       |-> TRUE,
                              syncedCookies |-> Cardinality(copied),
                              auditId       |-> GenerateAuditId(s.now, Head(s1.rnd)) ])

\* Variant: the window comparison is skipped.
HandleSessionSyncUnverified(msg, s) ==
    IF s.at = "start"
    THEN IF Truthy(s.config.sessionVerification)
         THEN Await(s, "tabs", "source_tab")
         ELSE SessionSyncChecked(msg, s)
    ELSE IF s.at = "source_tab"
    THEN IF msg.sourceTabId \notin TabIds
         THEN Throw(s, "No tab with id")
         ELSE Await(s, "tabs", "target_tab")
    ELSE IF msg.targetTabId \notin TabIds
         THEN Throw(s, "No tab with id")
         ELSE SessionSyncChecked(msg, s)

\* With sessionVerification on the handler awaits chrome.tabs.get for the
\* source tab, then for the target tab, and compares the windows; the
\* setting is read once, before the first lookup.
HandleSessionSync(msg, s) ==
    IF s.at = "start"
    THEN IF Truthy(s.config.sessionVerification)
         THEN Await(s, "tabs", "source_tab")
         ELSE SessionSyncChecked(msg, s)
    ELSE IF s.at = "source_tab"
    THEN IF msg.sourceTabId \notin TabIds
         THEN Throw(s, "No tab with id")
         ELSE Await(s, "tabs", "target_tab")
    ELSE IF msg.targetTabId \notin TabIds
         THEN Throw(s, "No tab with id")
         ELSE IF TabWindow[msg.sourceTabId] # TabWindow[msg.targetTabId]
         THEN Throw(s, "Cannot sync sessions across different windows without verification")
         ELSE SessionSyncChecked(msg, s)

SensitiveFields == {"password", "ssn", "creditCard", "cvv"}

SanitizeForDisplay(data) ==
    [ f \in DOMAIN data |->
        IF f \in SensitiveFields /\ Truthy(data[f])
        THEN "***REDACTED***" ELSE data[f] ]

\* Variant: the request's autoSubmit flag is not looked at.
HandleFormFillIgnoringFlag(msg, s) ==
    IF "formData" \notin DOMAIN msg
    THEN Throw(s, "Cannot convert undefined or null to object")
    ELSE LET s1 == LogAction(s, "form_fill",
                       [ fields     |-> DOMAIN msg.formData,
                         autoSubmit |-> JsAnd(msg.autoSubmit, s.config.formAutoSubmit),
                         timestamp  |-> s.now ])
         IN  IF /\ Truthy(s1.config.formAutoSubmit)
                /\ Truthy(s1.config.userConfirmation)
             THEN Return(s1, [ success  |-> TRUE,
                               action   |-> "request_confirmation",
                               message  |-> "Submit this form automatically?",
                               formData |-> SanitizeForDisplay(msg.formData) ])
             ELSE Return(s1, [ success |-> TRUE,
                               action  |-> "fill_only",
                               message |-> "Form filled. Please review and submit manually." ])

\* Variant: a HIGH risk level asks for confirmation by itself.
HandleFormFillRiskGated(msg, s) ==
    IF "formData" \notin DOMAIN msg
    THEN Throw(s, "Cannot convert undefined or null to object")
    ELSE LET s1 == LogAction(s, "form_fill",
                       [ fields     |-> DOMAIN msg.formData,
                         autoSubmit |-> JsAnd(msg.autoSubmit, s.config.formAutoSubmit),
                         timestamp  |-> s.now ])
         IN  IF /\ Truthy(JsAnd(msg.autoSubmit, s1.config.formAutoSubmit))
                /\ \/ Truthy(s1.config.userConfirmation)
                   \/ GetSafetyLevel(s1) = "HIGH"
             THEN Return(s1, [ success  |-> TRUE,
                               action   |-> "request_confirmation",
                               message  |-> "Submit this form automatically?",
                               formData |-> SanitizeForDisplay(msg.formData) ])
             ELSE Return(s1, [ success |-> TRUE,
                               action  |-> "fill_only",
                               message |-> "Form filled. Please review and submit manually." ])

HandleFormFill(msg, s) ==
    IF "formData" \notin DOMAIN msg
    THEN Throw(s, "Cannot convert undefined or null to object")
    ELSE LET s1 == LogAction(s, "form_fill",
                       [ fields     |-> DOMAIN msg.formData,
                         autoSubmit |-> JsAnd(msg.autoSubmit, s.config.formAutoSubmit),
                         timestamp  |-> s.now ])
         IN  IF /\ Truthy(JsAnd(msg.autoSubmit, s1.config.formAutoSubmit))
                /\ Truthy(s1.config.userConfirmation)
             THEN Return(s1, [ success  |-> TRUE,
                               action   |-> "request_confirmation",
                               message  |-> "Submit this form automatically?",
                               formData |-> SanitizeForDisplay(msg.formData) ])
             ELSE Return(s1, [ success |-> TRUE,
                               action  |-> "fill_only",
                               message |-> "Form filled. Please review and submit manually." ])

\* Strings explored that hold a character above U+00FF (here the euro sign,
\* U+20AC): btoa throws InvalidCharacterError on them, and JSON.stringify
\* leaves such a character as it is.
BeyondLatin1 == {"pass-U+20AC"}

EncryptDataThrows(data) == \E f \in DOMAIN data : data[f] \in BeyondLatin1

\* btoa(JSON.stringify(data)): an encoding, not a cipher.
EncryptData(data) == <<"base64", <<"json", data>>>>

\* JSON.parse(atob(encrypted))
DecryptData(encrypted) == encrypted[2][2]

\* The store branch awaits its write of the credential map and logs when it
\* runs on; awaiting encryptData or decryptData yields to no other message.
HandleCredentials(msg, s) ==
    IF msg.action = "store" /\ s.at = "start"
    THEN IF EncryptDataThrows([ username |-> msg.username, password |-> msg.password ])
         THEN Throw(s, "InvalidCharacterError")
         ELSE LET encrypted == EncryptData([ username |-> msg.username,
                                             password |-> msg.password ])
                  creds == (msg.site :> [ encrypted  |-> encrypted,
                                          storedAt   |-> s.now,
                                          encryption |-> "AES-256-GCM" ]) @@ s.credentials
                  s1 == [ s EXCEPT !.credentials = creds,
                                   !.writes = IssueSet(s.writes, "credentials", creds) ]
              IN  Await(s1, "storage", "credentials_stored")
    ELSE IF msg.action = "store"
    THEN LET s2 == LogAction(s, "credential_stored",
                       [ site      |-> msg.site,
                         username  |-> msg.username,
                         timestamp |-> s.now ])
         IN  Return(s2, [ success |-> TRUE,
                          message |-> "Credentials encrypted and stored locally" ])
    ELSE IF msg.action = "retrieve"
    THEN IF msg.site \notin DOMAIN s.credentials
         THEN Throw(s, "No credentials found for this site")
         ELSE LET decrypted == DecryptData(s.credentials[msg.site].encrypted)
                  s1 == LogAction(s, "credential_retrieved",
                            [ site |-> msg.site, timestamp |-> s.now ])
              IN  Return(s1, [ success |-> TRUE, credentials |-> decrypted ])
    ELSE ReturnUndefined(s)

\* Variant: the persisted copy is exported instead of the in-memory log.
HandleAuditExportPersisted(msg, s) ==
    IF s.config.auditStorage = "none"
    THEN Return(s, [ success |-> FALSE,
                     message |-> "Audit logging is disabled" ])
    ELSE Return(s, [ success    |-> TRUE,
                     auditLog   |-> IF "auditLog" \in DOMAIN s.stored
                                    THEN s.stored.auditLog ELSE <<>>,
                     format     |-> "JSON",
                     exportedAt |-> s.now ])

HandleAuditExport(msg, s) ==
    IF s.config.auditStorage = "none"
    THEN Return(s, [ success |-> FALSE,
                     message |-> "Audit logging is disabled" ])
    ELSE Return(s, [ success    |-> TRUE,
                     auditLog   |-> s.auditLog,
                     format     |-> "JSON",
                     exportedAt |-> s.now ])

\* Variant: accepting the terms promotes a standard-mode core to advanced.
HandleTermsAcceptancePromoting(msg, s) ==
    IF s.at = "start"
    THEN IF Truthy(msg.accepted)
         THEN Await([ s EXCEPT !.config.termsAccepted = "true",
                               !.mode = IF @ = "standard" THEN "advanced" ELSE @,
                               !.writes = IssueSet(s.writes, "termsAccepted", "true") ],
                    "storage", "terms_stored")
         ELSE Return(s, [ success |-> FALSE,
                          message |-> "Terms must be accepted to use EchoNate" ])
    ELSE Return(LogAction(s, "terms_accepted", [ timestamp |-> s.now ]),
                [ success |-> TRUE,
                  message |-> "Terms accepted. Full functionality enabled." ])

\* The flag is set and its write awaited; the event is logged when the
\* handler runs on.
HandleTermsAcceptance(msg, s) ==
    IF s.at = "start"
    THEN IF Truthy(msg.accepted)
         THEN Await([ s EXCEPT !.config.termsAccepted = "true",
                               !.writes = IssueSet(s.writes, "termsAccepted", "true") ],
                    "storage", "terms_stored")
         ELSE Return(s, [ success |-> FALSE,
                          message |-> "Terms must be accepted to use EchoNate" ])
    ELSE Return(LogAction(s, "terms_accepted", [ timestamp |-> s.now ]),
                [ success |-> TRUE,
                  message |-> "Terms accepted. Full functionality enabled." ])

----------------------------------------------------------------------------
(* The onMessage listener *)

HandlerNames ==
    { "GET_STATUS", "CHANGE_MODE", "UPDATE_CONFIG", "HANDLE_CHALLENGE",
      "SOLVE_CAPTCHA", "SYNC_SESSION", "FILL_FORM", "MANAGE_CREDENTIALS",
      "EXPORT_AUDIT", "ACCEPT_TERMS" }

RunHandler(msg, s) ==
    CASE msg.action = "GET_STATUS"         -> HandleStatusRequest(msg, s)
      [] msg.action = "CHANGE_MODE"        -> HandleModeChange(msg, s)
      [] msg.action = "UPDATE_CONFIG"      -> HandleConfigUpdate(msg, s)
      [] msg.action = "HANDLE_CHALLENGE"   -> HandleChallengeRequest(msg, s)
      [] msg.action = "SOLVE_CAPTCHA"      -> HandleCaptchaRequest(msg, s)
      [] msg.action = "SYNC_SESSION"       -> HandleSessionSync(msg, s)
      [] msg.action = "FILL_FORM"          -> HandleFormFill(msg, s)
      [] msg.action = "MANAGE_CREDENTIALS" -> HandleCredentials(msg, s)
      [] msg.action = "EXPORT_AUDIT"       -> HandleAuditExport(msg, s)
      [] msg.action = "ACCEPT_TERMS"       -> HandleTermsAcceptance(msg, s)

\* .then(sendResponse).catch(error => sendResponse({success: false, ...}))
SendResponse(r) ==
    IF r.thrown
    THEN [ sent |-> "object",
           body |-> [ success |-> FALSE, error |-> r.value.message ] ]
    ELSE IF "undefined" \in DOMAIN r.value
    THEN [ sent |-> "undefined" ]
    ELSE [ sent |-> "object", body |-> r.value ]

\* What a run of a handler leaves: the response passed to sendResponse once
\* its promise has settled, or none yet ("pending") with the browser call
\* it is suspended at and the label it runs on from.
Settle(r) ==
    IF Suspended(r)
    THEN [ st |-> r.st, resp |-> [ sent |-> "pending" ],
           awaiting |-> r.value.awaiting, resume |-> r.value.resume ]
    ELSE [ st |-> r.st, resp |-> SendResponse(r),
           awaiting |-> "nothing", resume |-> "done" ]

\* The listener: the handler of a known action is started and the listener
\* returns true; for any other action the listener returns false and
\* sendResponse is never called.
OnMessage(msg, s) ==
    IF msg.action \in HandlerNames
    THEN Settle(RunHandler(msg, s))
    ELSE [ st |-> s, resp |-> [ sent |-> "none" ],
           awaiting |-> "nothing", resume |-> "done" ]

----------------------------------------------------------------------------
(* Request interception callbacks *)

\* A header name is the sequence of its characters.
CfRay == <<"c", "f", "-", "r", "a", "y">>

XAkamaiRequest ==
    <<"x", "-", "a", "k", "a", "m", "a", "i", "-", "r", "e", "q", "u", "e", "s", "t">>

XDatadome == <<"x", "-", "d", "a", "t", "a", "d", "o", "m", "e">>

XSucuriId == <<"x", "-", "s", "u", "c", "u", "r", "i", "-", "i", "d">>

ChallengeIndicators == <<CfRay, XAkamaiRequest, XDatadome, XSucuriId>>

LowerCaseOf ==
    ("A" :> "a") @@ ("B" :> "b") @@ ("C" :> "c") @@ ("D" :> "d") @@ ("E"
    :> "e") @@ ("F" :> "f") @@ ("G" :> "g") @@ ("H" :> "h") @@ ("I" :>
    "i") @@ ("J" :> "j") @@ ("K" :> "k") @@ ("L" :> "l") @@ ("M" :> "m")
    @@ ("N" :> "n") @@ ("O" :> "o") @@ ("P" :> "p") @@ ("Q" :> "q") @@
    ("R" :> "r") @@ ("S" :> "s") @@ ("T" :> "t") @@ ("U" :> "u") @@ ("V"
    :> "v") @@ ("W" :> "w") @@ ("X" :> "x") @@ ("Y" :> "y") @@ ("Z" :>
    "z")

\* String.prototype.toLowerCase()
ToLowerCase(text) ==
    [ i \in DOMAIN text |->
        IF text[i] \in DOMAIN LowerCaseOf THEN LowerCaseOf[text[i]] ELSE text[i] ]

\* String.prototype.includes(part)
Includes(text, part) ==
    \E i \in 0..(Len(text) - Len(part)) :
        SubSeq(text, i + 1, i + Len(part)) = part

\* details.responseHeaders || []
ResponseHeaders(details) ==
    IF "responseHeaders" \in DOMAIN details THEN details.responseHeaders ELSE <<>>

\* Some header's lower-cased name contains an indicator.
DetectChallenge(details) ==
    LET headers == ResponseHeaders(details)
    IN  \E h \in DOMAIN headers :
            \E k \in DOMAIN ChallengeIndicators :
                Includes(ToLowerCase(headers[h].name),
                         ToLowerCase(ChallengeIndicators[k]))

\* Some header's lower-cased name is the indicator.
HasHeader(details, name) ==
    LET headers == ResponseHeaders(details)
    IN  \E h \in DOMAIN headers : ToLowerCase(headers[h].name) = name

IdentifyChallengeType(details) ==
    IF HasHeader(details, CfRay) THEN "cloudflare"
    ELSE IF HasHeader(details, XAkamaiRequest) THEN "akamai"
    ELSE IF HasHeader(details, XDatadome) THEN "datadome"
    ELSE "unknown"

OnBeforeSendHeaders(details, s) ==
    IF Truthy(s.config.actionLogging)
    THEN LogAction(s, "request_sent",
             [ url |-> details.url, method |-> details.method, timestamp |-> s.now ])
    ELSE s

OnHeadersReceived(details, s) ==
    LET s1 == IF details.statusCode = 429
              THEN LogAction(s, "rate_limit_detected",
                       [ url |-> details.url, timestamp |-> s.now ])
              ELSE s
    IN  IF details.statusCode = 403 /\ DetectChallenge(details)
        THEN LogAction(s1, "challenge_detected",
                 [ url       |-> details.url,
                   type      |-> IdentifyChallengeType(details),
                   timestamp |-> s.now ])
        ELSE s1

----------------------------------------------------------------------------
(* Start-up *)

\* The fields as the constructor sets them, over a given storage area.
Constructed(st, jar) ==
    [ mode             |-> "standard",
      config           |-> DefaultConfig,
      credentials      |-> <<>>,
      auditLog         |-> <<>>,
      captchaProviders |-> <<>>,
      stored           |-> st,
      cookies          |-> jar,
      now              |-> 0,
      writes           |-> <<>>,
      at               |-> "start",
      rnd              |-> <<>> ]

LoadConfiguration(s) ==
    LET has(k) == k \in DOMAIN s.stored
        cfg1 == IF has("config") THEN s.stored.config @@ s.config ELSE s.config
        cfg2 == IF has("termsAccepted") /\ Truthy(s.stored.termsAccepted)
                THEN [ cfg1 EXCEPT !.termsAccepted = s.stored.termsAccepted ]
                ELSE cfg1
    IN  [ s EXCEPT !.mode = IF has("mode") /\ Truthy(s.stored.mode)
                            THEN s.stored.mode ELSE @,
                   !.config = cfg2,
                   !.credentials = IF has("credentials") THEN s.stored.credentials ELSE @,
                   !.auditLog = IF has("auditLog") THEN s.stored.auditLog ELSE @ ]

InitializeCaptchaProviders(s) ==
    [ s EXCEPT !.captchaProviders = InitialCaptchaProviders ]

Initialize(s) == InitializeCaptchaProviders(LoadConfiguration(s))

----------------------------------------------------------------------------
(* Handlers suspended at an await, and storage writes under way *)

\* writes: the chrome.storage.local.set calls made and not yet completed, in
\* call order; calls: the handler invocations that are suspended or have
\* writes under way, in submission order.  A call holds its message, the
\* time, mode, risk level and logging setting of its submission, the label it runs on from
\* ("done": it has ended), the browser call it is suspended at, the place in
\* writes of the write it awaits and of the last write it made (0: none),
\* and the response passed to sendResponse ("pending": none yet).
NothingPending == [ writes |-> <<>>, calls |-> <<>> ]

NoCall == [ action |-> "none" ]

Unsettled(c) == c.at # "done" \/ c.lastWrite > 0

\* Two logs that differ only in which values Math.random() returned, equal
\* draws staying equal, are one behaviour: the draws of one clock reading
\* are named 1, 2 in the order they first appear.
NamedInOrder(log) ==
    \A i \in DOMAIN log :
        \/ log[i].id[3] = 1
        \/ \E j \in 1..(i - 1) :
              /\ log[j].id[2] = log[i].id[2]
              /\ log[j].id[3] >= log[i].id[3] - 1

----------------------------------------------------------------------------
(* The messages and callback arguments explored *)

ModeMsg(newMode, justification) ==
    [ action |-> "CHANGE_MODE", newMode |-> newMode, justification |-> justification ]

ConfigMsg(configKey, value) ==
    [ action |-> "UPDATE_CONFIG", configKey |-> configKey, value |-> value ]

SyncMsg(sourceTabId, targetTabId) ==
    [ action |-> "SYNC_SESSION", sourceTabId |-> sourceTabId,
      targetTabId |-> targetTabId ]

FormData == [ username |-> "alice", password |-> "hunter2" ]

\* The header Server.
ServerHeader == <<"S", "e", "r", "v", "e", "r">>

InitialCookies == [ t \in TabIds |-> IF t = 1 THEN {"sid"} ELSE {} ]

----------------------------------------------------------------------------
(* The content script (NavigationAssistant) *)

\* The elements of a page that the captcha selectors explored match, in the
\* order of the selectors ('.g-recaptcha', '.h-captcha').
CaptchaSelectors == <<"g-recaptcha", "h-captcha">>

CaptchaElements == { CaptchaSelectors[k] : k \in DOMAIN CaptchaSelectors }

\* node.className
ClassName(node) ==
    CASE node = "g-recaptcha" -> <<"g", "-", "r", "e", "c", "a", "p", "t",
                                   "c", "h", "a">>
      [] node = "h-captcha"   -> <<"h", "-", "c", "a", "p", "t", "c", "h",
                                   "a">>
      [] OTHER                -> <<>>

\* node.innerText
InnerText(node) ==
    IF node = "interstitial" THEN <<"J", "u", "s", "t", " ", "a", " ", "m",
                                    "o", "m", "e", "n", "t", ".", ".", ".">> ELSE <<>>

\* The documents a challenge shows in: the interstitial of each vendor the
\* script knows and a page that names no vendor.
Pages == {"cloudflare", "akamai", "datadome", "plain"}

\* document.body.innerText
BodyText(page) ==
    CASE page = "cloudflare" ->
           <<"J", "u", "s", "t", " ", "a", " ", "m", "o", "m", "e", "n", "t",
             ".", ".", ".", " ", "C", "l", "o", "u", "d", "f", "l", "a", "r",
             "e">>
      [] page = "akamai" ->
           <<"S", "e", "c", "u", "r", "i", "t", "y", " ", "c", "h", "e", "c",
             "k", " ", "A", "k", "a", "m", "a", "i">>
      [] page = "datadome" ->
           <<"D", "D", "o", "S", " ", "p", "r", "o", "t", "e", "c", "t", "i",
             "o", "n", " ", "D", "a", "t", "a", "D", "o", "m", "e">>
      [] OTHER ->
           <<"S", "e", "c", "u", "r", "i", "t", "y", " ", "c", "h", "e", "c",
             "k">>

\* document.documentElement.outerHTML
DocumentHTML(page) ==
    <<"<", "h", "t", "m", "l", ">", "<", "b", "o", "d", "y", ">">>
    \o BodyText(page) \o <<"<", "/", "b", "o", "d", "y", ">", "<", "/", "h",
                           "t", "m", "l", ">">>

\* The fields as the constructor sets them and the state around them.  The
\* constructor calls initialize(), which sends GET_STATUS: sent are the
\* messages passed to chrome.runtime.sendMessage that the core has not
\* handled yet, each with the call that awaits its answer; answers are the
\* responses on their way back to the script.  dialogs are the confirmation
\* dialogs on screen, in the order opened, each named by the call that
\* awaits it; choices is what the last closed dialog of a call resolved
\* with, results what its last finished handleCaptchaDetected call resolved
\* or rejected with; submits counts the form.submit() calls.
ConstructedAssistant ==
    [ phase            |-> "constructed",
      mode             |-> "standard",
      config           |-> <<>>,
      activeAssistance |-> {},
      notifications    |-> <<>>,
      dialogs          |-> <<>>,
      choices          |-> <<>>,
      results          |-> <<>>,
      patterns         |-> 0,
      submits          |-> 0,
      sent             |-> << [ from |-> "initialize",
                                msg  |-> [ action |-> "GET_STATUS" ] ] >>,
      answers          |-> <<>> ]

\* The sequence without its i-th element.
Without(seq, i) == SubSeq(seq, 1, i - 1) \o SubSeq(seq, i + 1, Len(seq))

\* sendMessage(action, data) awaited by the call from.
SendMessage(a, from, msg) ==
    [ a EXCEPT !.sent = Append(@, [ from |-> from, msg |-> msg ]) ]

\* initialize(), from the answer to GET_STATUS on.
AssistantInitialized(a, response) ==
    [ a EXCEPT !.phase = "observing",
               !.mode = response.body.status.mode,
               !.config = response.body.status.config ]

IdentifyCaptchaType(element) ==
    LET outerHTML == <<"<", "d", "i", "v", " ", "c", "l", "a", "s", "s", "=", "\"">>
                     \o ClassName(element)
                     \o <<"\"", ">", "<", "/", "d", "i", "v", ">">>
        html == ToLowerCase(outerHTML)
    IN  IF Includes(html, <<"r", "e", "c", "a", "p", "t", "c", "h", "a">>)
        THEN "recaptcha"
        ELSE IF Includes(html, <<"h", "c", "a", "p", "t", "c", "h", "a">>)
        THEN "hcaptcha"
        ELSE IF Includes(html, <<"f", "u", "n", "c", "a", "p", "t", "c", "h",
                                 "a">>)
        THEN "funcaptcha"
        ELSE "unknown"

IsCaptcha(node) ==
    \E indicator \in { <<"r", "e", "c", "a", "p", "t", "c", "h", "a">>,
                       <<"h", "c", "a", "p", "t", "c", "h", "a">>,
                       <<"f", "u", "n", "c", "a", "p", "t", "c", "h", "a">>,
                       <<"c", "a", "p", "t", "c", "h", "a">> } :
        Includes(ClassName(node), indicator)

\* The message handleCaptchaDetected sends for an element; the handler reads
\* the image field, which the message does not have.
CaptchaFound(element) ==
    [ action |-> "SOLVE_CAPTCHA", image |-> Undefined,
      type |-> IdentifyCaptchaType(element), provider |-> "2captcha" ]

\* handleCaptchaDetected(element) up to its await of sendMessage.
CaptchaHandlingStarted(a, element) ==
    SendMessage([ a EXCEPT !.activeAssistance = @ \cup {element} ],
                element, CaptchaFound(element))

\* handleCaptchaDetected(element), from the answer to SOLVE_CAPTCHA up to its
\* end or to the await of confirmAction.
HandleCaptchaDetected(a, element, response) ==
    LET action == IF "action" \in DOMAIN response.body
                  THEN response.body.action ELSE Undefined
    IN  IF response.sent # "object"
        THEN [ a EXCEPT !.results = (element :> "TypeError") @@ @ ]
        ELSE IF action = "notify_user"
        THEN [ a EXCEPT !.notifications = Append(@, response.body.message),
                        !.results = (element :> Undefined) @@ @ ]
        ELSE IF action = "request_confirmation"
        THEN [ a EXCEPT !.dialogs = Append(@, element) ]
        ELSE [ a EXCEPT !.results = (element :> Undefined) @@ @ ]

\* One run of the interval callback of detectCaptchas over a document holding
\* the elements found, from the k-th selector on.
RECURSIVE DetectCaptchas(_, _, _)
DetectCaptchas(a, found, k) ==
    IF k > Len(CaptchaSelectors) THEN a
    ELSE LET captcha == CaptchaSelectors[k]
         IN  DetectCaptchas(
                 IF captcha \in found /\ captcha \notin a.activeAssistance
                 THEN CaptchaHandlingStarted(a, captcha) ELSE a,
                 found, k + 1)

\* The interval callback of detectChallenges starts the handling.
ShowsChallenge(page) ==
    \E indicator \in { <<"C", "h", "e", "c", "k", "i", "n", "g", " ", "y",
                         "o", "u", "r", " ", "b", "r", "o", "w", "s", "e",
                         "r">>,
                       <<"J", "u", "s", "t", " ", "a", " ", "m", "o", "m",
                         "e", "n", "t">>,
                       <<"P", "l", "e", "a", "s", "e", " ", "w", "a", "i",
                         "t", " ", "w", "h", "i", "l", "e", " ", "w", "e",
                         " ", "v", "e", "r", "i", "f", "y">>,
                       <<"S", "e", "c", "u", "r", "i", "t", "y", " ", "c",
                         "h", "e", "c", "k">>,
                       <<"D", "D", "o", "S", " ", "p", "r", "o", "t", "e",
                         "c", "t", "i", "o", "n">> } :
        Includes(BodyText(page), indicator)

IsChallenge(node) ==
    /\ InnerText(node) # <<>>
    /\ \E keyword \in { <<"c", "h", "e", "c", "k", "i", "n", "g", " ", "y",
                          "o", "u", "r", " ", "b", "r", "o", "w", "s", "e",
                          "r">>,
                        <<"j", "u", "s", "t", " ", "a", " ", "m", "o", "m",
                          "e", "n", "t">>,
                        <<"s", "e", "c", "u", "r", "i", "t", "y", " ", "c",
                          "h", "e", "c", "k">>,
                        <<"v", "e", "r", "i", "f", "y", " ", "y", "o", "u",
                          " ", "a", "r", "e", " ", "h", "u", "m", "a", "n">> } :
           Includes(ToLowerCase(InnerText(node)), keyword)

\* identifyChallengeType() of the content script.
IdentifyPageChallengeType(page) ==
    LET bodyText == ToLowerCase(BodyText(page))
        html == ToLowerCase(DocumentHTML(page))
    IN  IF \/ Includes(html, <<"c", "l", "o", "u", "d", "f", "l", "a", "r",
                               "e">>)
           \/ Includes(bodyText, <<"c", "l", "o", "u", "d", "f", "l", "a",
                                   "r", "e">>)
        THEN "cloudflare"
        ELSE IF Includes(html, <<"a", "k", "a", "m", "a", "i">>)
        THEN "akamai"
        ELSE IF Includes(html, <<"d", "a", "t", "a", "d", "o", "m", "e">>)
        THEN "datadome"
        ELSE "unknown"

\* The message handleChallengeDetected sends from a document.
ChallengeFound(page) ==
    [ action |-> "HANDLE_CHALLENGE", url |-> "https://site.example/",
      challengeType |-> IdentifyPageChallengeType(page) ]

\* handleChallengeDetected(element) up to its await of sendMessage.
ChallengeHandlingStarted(a, page) ==
    IF "challenge" \in a.activeAssistance THEN a
    ELSE SendMessage([ a EXCEPT !.activeAssistance = @ \cup {"challenge"} ],
                     "challenge", ChallengeFound(page))

\* injectHumanPatterns(): the simulated mouse movement, scrolling and timing
\* are started unless the mode the script holds is standard.
InjectHumanPatterns(a) ==
    IF a.mode = "standard" THEN a
    ELSE [ a EXCEPT !.patterns = @ + 1 ]

\* handleChallengeDetected(element), from the answer to HANDLE_CHALLENGE on.
HandleChallengeDetected(a, response) ==
    LET action == IF response.sent = "object" /\ "action" \in DOMAIN response.body
                  THEN response.body.action ELSE Undefined
    IN  IF response.sent # "object"
        THEN [ a EXCEPT !.results = ("challenge" :> "TypeError") @@ @ ]
        ELSE IF action = "notify_user"
        THEN [ a EXCEPT !.notifications = Append(@, response.body.message) ]
        ELSE IF action = "inject_patterns"
        THEN InjectHumanPatterns(a)
        ELSE a

\* handleDOMMutations for one added element node of a document: a form is
\* only highlighted or offered nothing (hasDataForForm is false).
HandleDOMMutations(a, node, page) ==
    LET a1 == IF IsCaptcha(node) THEN CaptchaHandlingStarted(a, node) ELSE a
    IN  IF IsChallenge(node) THEN ChallengeHandlingStarted(a1, page) ELSE a1

\* handleFormSubmit(event) up to its await of sendMessage.
FormSubmitStarted(a) ==
    SendMessage(a, "form", [ action |-> "FILL_FORM", formData |-> FormData,
                             autoSubmit |-> "false" ])

\* handleFormSubmit(event) from the answer on, up to its end or to the await
\* of confirmAction; the answer itself is not read.
HandleFormSubmit(a, response) ==
    IF ~Truthy(a.config.formAutoSubmit) THEN a
    ELSE IF Truthy(a.config.userConfirmation)
    THEN [ a EXCEPT !.dialogs = Append(@, "form") ]
    ELSE a

\* The call that opened the i-th dialog runs on once confirmAction has
\* resolved: handleFormSubmit submits the form if confirmed; the confirmed
\* branch of handleCaptchaDetected is empty and there is no other branch.
ConfirmActionResolved(a, i, confirmed) ==
    LET from == a.dialogs[i]
        closed == [ a EXCEPT !.dialogs = Without(@, i),
                             !.choices = (from :> confirmed) @@ @ ]
    IN  IF from = "form"
        THEN [ closed EXCEPT !.submits = IF Truthy(confirmed) THEN @ + 1 ELSE @ ]
        ELSE [ closed EXCEPT !.results = (from :> Undefined) @@ @ ]

----------------------------------------------------------------------------
(* Specification *)

Install(s) ==
    /\ mode' = s.mode
    /\ config' = s.config
    /\ credentials' = s.credentials
    /\ auditLog' = s.auditLog
    /\ captchaProviders' = s.captchaProviders
    /\ stored' = s.stored
    /\ cookies' = s.cookies

Init ==
    LET s == Initialize(Constructed(<<>>, InitialCookies))
    IN  /\ mode = s.mode
        /\ config = s.config
        /\ credentials = s.credentials
        /\ auditLog = s.auditLog
        /\ captchaProviders = s.captchaProviders
        /\ stored = s.stored
        /\ cookies = s.cookies
        /\ clock = 0
        /\ req = [ action |-> "none" ]
        /\ resp = [ sent |-> "init" ]
        /\ assistant = ConstructedAssistant
        /\ trail = AuditTrailConstructed
        /\ pending = NothingPending

\* The record of the invocation msg started, which left r.
CallStarted(msg, r) ==
    LET n == Len(pending.writes) + Len(r.st.writes)
    IN  [ msg         |-> msg,
          t           |-> clock,
          mode        |-> mode,
          safetyLevel |-> GetSafetyLevel(Cur),
          logging     |-> config.actionLogging,
          at          |-> r.resume,
          awaiting    |-> r.awaiting,
          awaits      |-> IF r.awaiting = "storage" THEN n ELSE 0,
          lastWrite   |-> IF r.st.writes = <<>> THEN 0 ELSE n,
          resp        |-> r.resp ]

\* A handler was started with msg and ran until it ended or was suspended,
\* leaving r: its assignments are made, its writes are under way.
Start(msg, r) ==
    /\ Install(r.st)
    /\ NamedInOrder(r.st.auditLog)
    /\ pending' = [ writes |-> pending.writes \o r.st.writes,
                    calls  |-> IF Unsettled(CallStarted(msg, r))
                               THEN Append(pending.calls, CallStarted(msg, r))
                               ELSE pending.calls ]
    /\ req' = msg
    /\ resp' = r.resp
    /\ clock' = clock + 1

\* One message delivered to the listener: its handler runs to its end, and
\* the response is passed to the sender, or to its first await of a browser
\* call.
Deliver(msg) ==
    \E tape \in RandomTapes(Consumed(OnMessage(msg, [ Cur EXCEPT !.rnd = FullTape ]).st)) :
        /\ Start(msg, OnMessage(msg, [ Cur EXCEPT !.rnd = tape ]))
        /\ UNCHANGED <<assistant, trail>>

\* A callback of the core that is no message handler ran and left s.
Ran(event, s) ==
    /\ Install(s)
    /\ NamedInOrder(s.auditLog)
    /\ pending' = [ pending EXCEPT !.writes = @ \o s.writes ]
    /\ req' = event
    /\ resp' = [ sent |-> "callback" ]
    /\ clock' = clock + 1
    /\ UNCHANGED <<assistant, trail>>

\* The method a suspended invocation runs on in.
Continue(msg, s) ==
    IF msg.action \in {"store", "retrieve"}
    THEN HandleCredentials(msg, s)
    ELSE RunHandler(msg, s)

\* The browser call invocation i was suspended at has completed: the handler
\* runs on, over the instance as it is now, to its end or to its next await.
\* area is the storage area by then, queue the writes still under way.
RunOn(i, area, queue, calls, event) ==
    \E tape \in RandomTapes(Consumed(Continue(calls[i].msg,
                                 [ Cur EXCEPT !.at = calls[i].at,
                                              !.rnd = FullTape ]).st)) :
        LET c == calls[i]
            r == Settle(Continue(c.msg, [ Cur EXCEPT !.stored = area,
                                                     !.at = c.at,
                                                     !.rnd = tape ]))
            n == Len(queue) + Len(r.st.writes)
            after == [ c EXCEPT !.at = r.resume,
                                !.awaiting = r.awaiting,
                                !.awaits = IF r.awaiting = "storage" THEN n ELSE 0,
                                !.lastWrite = IF r.st.writes = <<>> THEN @ ELSE n,
                                !.resp = r.resp ]
        IN  /\ Install(r.st)
            /\ NamedInOrder(r.st.auditLog)
            /\ pending' = [ writes |-> queue \o r.st.writes,
                            calls  |-> SelectSeq([ j \in DOMAIN calls |->
                                                     IF j = i THEN after
                                                     ELSE calls[j] ],
                                                 Unsettled) ]
            /\ req' = [ event EXCEPT !.call = c.msg, !.at = c.at ]
            /\ resp' = r.resp
            /\ UNCHANGED <<clock, assistant, trail>>

\* The oldest write under way completes; the handler awaiting it, if any,
\* runs on.
WriteCompletes ==
    /\ pending.writes # <<>>
    /\ LET w == Head(pending.writes)
           area == StorageSet(stored, w.key, w.value)
           waiting == { i \in DOMAIN pending.calls :
                          /\ pending.calls[i].awaiting = "storage"
                          /\ pending.calls[i].awaits = 1 }
           calls == [ i \in DOMAIN pending.calls |->
                        [ pending.calls[i] EXCEPT
                            !.awaits = IF @ > 0 THEN @ - 1 ELSE 0,
                            !.lastWrite = IF @ > 0 THEN @ - 1 ELSE 0 ] ]
           event == [ action |-> "storageSet", key |-> w.key,
                      call |-> NoCall, at |-> "none" ]
       IN  IF waiting = {}
           THEN /\ stored' = area
                /\ pending' = [ writes |-> Tail(pending.writes),
                                calls  |-> SelectSeq(calls, Unsettled) ]
                /\ req' = event
                /\ resp' = [ sent |-> "callback" ]
                /\ UNCHANGED <<mode, config, credentials, auditLog,
                               captchaProviders, cookies, clock, assistant, trail>>
           ELSE RunOn(CHOOSE i \in waiting : TRUE, area, Tail(pending.writes),
                      calls, event)

\* A chrome.tabs.get under way completes and the handler awaiting it runs on.
LookupCompletes ==
    \E i \in DOMAIN pending.calls :
        /\ pending.calls[i].awaiting = "tabs"
        /\ RunOn(i, stored, pending.writes, pending.calls,
                 [ action |-> "tabsGet", call |-> NoCall, at |-> "none" ])

GetStatus ==
    /\ clock < MaxSteps
    /\ Deliver([ action |-> "GET_STATUS" ])

ChangeMode ==
    \E msg \in { ModeMsg("research", "test"), ModeMsg("bogus", "test") } :
        /\ clock < MaxSteps
        /\ Deliver(msg)

UpdateConfig ==
    \E msg \in { ConfigMsg("actionLogging", "false"), ConfigMsg("auditStorage", "none") } :
        /\ clock < MaxSteps
        /\ Deliver(msg)

HandleChallenge ==
    \E msg \in { [ action |-> "HANDLE_CHALLENGE", url |-> "https://site.example/",
                 challengeType |-> "cloudflare" ] } :
        /\ clock < MaxSteps
        /\ Deliver(msg)

SolveCaptchaRequest ==
    \E msg \in { [ action |-> "SOLVE_CAPTCHA", image |-> Undefined, type |-> "recaptcha",
                 provider |-> "2captcha" ] } :
        /\ clock < MaxSteps
        /\ Deliver(msg)

SyncSession ==
    \E msg \in { SyncMsg(1, 3) } :
        /\ clock < MaxSteps
        /\ Deliver(msg)

FillForm ==
    \E msg \in { [ action |-> "FILL_FORM", formData |-> FormData, autoSubmit |-> "true" ],
                 [ action |-> "FILL_FORM", autoSubmit |-> "true" ] } :
        /\ clock < MaxSteps
        /\ Deliver(msg)

ManageCredentials ==
    \E msg \in { [ action |-> "MANAGE_CREDENTIALS", site |-> "site.example",
                 username |-> "alice", password |-> "hunter2", userConsent |-> Undefined ] } :
        /\ clock < MaxSteps
        /\ Deliver(msg)

ExportAudit ==
    /\ clock < MaxSteps
    /\ Deliver([ action |-> "EXPORT_AUDIT" ])

AcceptTerms ==
    \E msg \in { [ action |-> "ACCEPT_TERMS", accepted |-> a ] : a \in {"true", "false"} } :
        /\ clock < MaxSteps
        /\ Deliver(msg)

UnknownAction ==
    /\ clock < MaxSteps
    /\ Deliver([ action |-> "UNKNOWN" ])

BeforeSendHeaders ==
    \E details \in { [ url |-> "https://site.example/", method |-> "GET" ] } :
      \E tape \in RandomTapes(Consumed(
                     OnBeforeSendHeaders(details, [ Cur EXCEPT !.rnd = FullTape ]))) :
        /\ clock < MaxSteps
        /\ Ran([ action |-> "onBeforeSendHeaders", details |-> details ],
               OnBeforeSendHeaders(details, [ Cur EXCEPT !.rnd = tape ]))

HeadersReceived ==
    \E details \in { [ url |-> "https://site.example/", statusCode |-> 429 ],
                     [ url |-> "https://site.example/", statusCode |-> 403,
                       responseHeaders |-> << [ name |-> ServerHeader ] >> ],
                     [ url |-> "https://site.example/", statusCode |-> 403,
                       responseHeaders |-> << [ name |-> ServerHeader ], [ name |-> CfRay ] >> ],
                     [ url |-> "https://site.example/", statusCode |-> 403,
                       responseHeaders |-> << [ name |-> <<"C", "F", "-", "R", "a", "y", "-", "I", "d">> ] >> ] } :
      \E tape \in RandomTapes(Consumed(
                     OnHeadersReceived(details, [ Cur EXCEPT !.rnd = FullTape ]))) :
        /\ clock < MaxSteps
        /\ Ran([ action |-> "onHeadersReceived", details |-> details ],
               OnHeadersReceived(details, [ Cur EXCEPT !.rnd = tape ]))

\* Requests of the narrower specifications.
\* Changes to the other two modes.
ChangeModeFurther ==
    \E msg \in { ModeMsg("advanced", "test"), ModeMsg("standard", "test") } :
        /\ clock < MaxSteps
        /\ Deliver(msg)

\* A change of mode with an empty or a missing justification.
ChangeModeUnjustified ==
    \E msg \in { ModeMsg("research", ""), ModeMsg("research", Undefined) } :
        /\ clock < MaxSteps
        /\ Deliver(msg)

SetLogging ==
    \E msg \in { ConfigMsg("actionLogging", v) : v \in {"true", "false"} } :
        /\ clock < MaxSteps
        /\ Deliver(msg)

SetCaptchaMode ==
    \E msg \in { ConfigMsg("captchaMode", v) :
                    v \in {"assisted", "automated", "bogus"} } :
        /\ clock < MaxSteps
        /\ Deliver(msg)

SetChallengeStrategy ==
    \E msg \in { ConfigMsg("challengeStrategy", v) : v \in {"assist", "bypass"} } :
        /\ clock < MaxSteps
        /\ Deliver(msg)

SetFormSettings ==
    \E msg \in { ConfigMsg("formAutoSubmit", "true"),
                 ConfigMsg("userConfirmation", "false"),
                 ConfigMsg("userConfirmation", "once") } :
        /\ clock < MaxSteps
        /\ Deliver(msg)

SetFormAutoSubmit ==
    \E msg \in { ConfigMsg("formAutoSubmit", "true") } :
        /\ clock < MaxSteps
        /\ Deliver(msg)

SetVerification ==
    \E msg \in { ConfigMsg("sessionVerification", "false") } :
        /\ clock < MaxSteps
        /\ Deliver(msg)

SetTermsAccepted ==
    \E msg \in { ConfigMsg("termsAccepted", v) : v \in {"true", "false"} } :
        /\ clock < MaxSteps
        /\ Deliver(msg)

\* An update of a key that is no setting.
SetUnknownKey ==
    \E msg \in { ConfigMsg("unknownKey", "true") } :
        /\ clock < MaxSteps
        /\ Deliver(msg)

\* Updates that raise the risk level and that no gate consults.
SetRiskSettings ==
    \E msg \in { ConfigMsg("fingerprintMethod", "spoofing"),
                 ConfigMsg("rateLimitStrategy", "unrestricted"),
                 ConfigMsg("proxyEnabled", "true") } :
        /\ clock < MaxSteps
        /\ Deliver(msg)

\* Tab 1 to a tab of its window, and to a tab that does not exist.
SyncSessionFurther ==
    \E msg \in { SyncMsg(1, 2), SyncMsg(1, 9) } :
        /\ clock < MaxSteps
        /\ Deliver(msg)

FillFormManually ==
    \E msg \in { [ action |-> "FILL_FORM", formData |-> FormData,
                   autoSubmit |-> "false" ] } :
        /\ clock < MaxSteps
        /\ Deliver(msg)

Next ==
    \/ GetStatus
    \/ ChangeMode
    \/ UpdateConfig
    \/ HandleChallenge
    \/ SolveCaptchaRequest
    \/ SyncSession
    \/ FillForm
    \/ ManageCredentials
    \/ ExportAudit
    \/ AcceptTerms
    \/ UnknownAction
    \/ BeforeSendHeaders
    \/ HeadersReceived
    \/ WriteCompletes
    \/ LookupCompletes

Spec == Init /\ [][Next]_vars

----------------------------------------------------------------------------
(* The mode and the settings: requests that change or report them *)

SpecSettings ==
    Init /\ [][ \/ GetStatus
                \/ ChangeMode
                \/ ChangeModeFurther
                \/ ChangeModeUnjustified
                \/ SetLogging
                \/ SetVerification
                \/ SetTermsAccepted
                \/ SetUnknownKey
                \/ AcceptTerms
                \/ WriteCompletes ]_vars

----------------------------------------------------------------------------
(* The captcha and challenge gates under every automation level *)

SpecCaptcha ==
    Init /\ [][ \/ ChangeMode
                \/ ChangeModeFurther
                \/ SetCaptchaMode
                \/ SetChallengeStrategy
                \/ HandleChallenge
                \/ SolveCaptchaRequest
                \/ WriteCompletes ]_vars

----------------------------------------------------------------------------
(* The four gates under settings that move the risk level *)

SpecGates ==
    Init /\ [][ \/ ChangeMode
                \/ SetFormSettings
                \/ SetRiskSettings
                \/ HandleChallenge
                \/ SolveCaptchaRequest
                \/ SyncSession
                \/ FillForm
                \/ FillFormManually
                \/ WriteCompletes
                \/ LookupCompletes ]_vars

----------------------------------------------------------------------------
(* Session synchronisation with the tab lookups it waits for *)

SpecSession ==
    Init /\ [][ \/ ChangeMode
                \/ SetLogging
                \/ SetVerification
                \/ SyncSession
                \/ SyncSessionFurther
                \/ WriteCompletes
                \/ LookupCompletes ]_vars

----------------------------------------------------------------------------
(* The audit trail's operations *)

\* clearAuditLog called on the trail; it returns nothing.
ClearAudit ==
    \E c \in {"true", "false", Undefined} :
        /\ clock < MaxSteps
        /\ trail' = ClearAuditLog(c, trail)
        /\ req' = [ action |-> "clearAuditLog", userConfirmation |-> c ]
        /\ resp' = [ sent |-> "value", value |-> Undefined ]
        /\ clock' = clock + 1
        /\ UNCHANGED <<mode, config, credentials, auditLog, captchaProviders,
                       stored, cookies, assistant, pending>>

\* logAction called on the trail; it returns the id of the event.
LogToTrail ==
    \E random \in RandomParts,
       call \in { <<"mode_change", [ to |-> "research" ]>>,
                  <<"config_update", [ key |-> "captchaMode" ]>>,
                  <<"terms_accepted", [ accepted |-> "true" ]>> } :
        LET action_type == call[1]
            details == call[2]
            t == AuditTrailLogAction(trail, action_type, details, clock, random)
        IN  /\ clock < MaxSteps
            /\ NamedInOrder(t.events)
            /\ trail' = t
            /\ req' = [ action |-> "logAction", action_type |-> action_type,
                        details |-> details ]
            /\ resp' = [ sent |-> "value", value |-> t.events[Len(t.events)].id ]
            /\ clock' = clock + 1
            /\ UNCHANGED <<mode, config, credentials, auditLog, captchaProviders,
                           stored, cookies, assistant, pending>>

\* exportAuditLog called on the trail: it assigns nothing.
ExportTrail ==
    /\ clock < MaxSteps
    /\ req' = [ action |-> "exportAuditLog" ]
    /\ resp' = [ sent |-> "value", value |-> ExportAuditLog(trail) ]
    /\ clock' = clock + 1
    /\ UNCHANGED <<mode, config, credentials, auditLog, captchaProviders,
                   stored, cookies, assistant, trail, pending>>

SpecAudit ==
    Init /\ [][ \/ ClearAudit
                \/ LogToTrail
                \/ ExportTrail ]_vars

----------------------------------------------------------------------------
(* The core with a page's content script and the dashboard's settings *)

\* A step of the content script alone: it leaves a and the core untouched.
ScriptRan(event, a) ==
    /\ assistant' = a
    /\ req' = event
    /\ resp' = [ sent |-> "none" ]
    /\ UNCHANGED <<mode, config, credentials, auditLog, captchaProviders,
                   stored, cookies, clock, trail, pending>>

\* Every message the script has sent can still be handled by the core within
\* the invocations explored.
WithinReach(a) == clock + Len(a.sent) <= MaxSteps

\* The core's listener is invoked with a message the script sent; the
\* response goes on its way back.
ScriptRequestHandled ==
    \E i \in DOMAIN assistant.sent :
      \E tape \in RandomTapes(Consumed(
                     OnMessage(assistant.sent[i].msg,
                               [ Cur EXCEPT !.rnd = FullTape ]).st)) :
        /\ clock < MaxSteps
        /\ LET m == assistant.sent[i]
               r == OnMessage(m.msg, [ Cur EXCEPT !.rnd = tape ])
           IN  /\ Start(m.msg, r)
               /\ assistant' =
                     [ assistant EXCEPT
                         !.sent = Without(@, i),
                         !.answers = Append(@, [ from     |-> m.from,
                                                 response |-> r.resp ]) ]
               /\ UNCHANGED trail

\* The answer to a sendMessage reaches the script and the call awaiting it
\* runs on, leaving a.
Answered(i, a) ==
    ScriptRan([ action |-> "sendMessageCallback",
                from   |-> assistant.answers[i].from ],
              [ a EXCEPT !.answers = Without(@, i) ])

AssistantInitialize ==
    \E i \in DOMAIN assistant.answers :
        /\ assistant.answers[i].from = "initialize"
        /\ Answered(i, AssistantInitialized(assistant,
                                            assistant.answers[i].response))

\* The interval callback of detectCaptchas runs over a document holding the
\* elements found.
CaptchaDetected ==
    \E found \in SUBSET CaptchaElements :
        /\ assistant.phase = "observing"
        /\ found \ assistant.activeAssistance # {}
        /\ WithinReach(DetectCaptchas(assistant, found, 1))
        /\ ScriptRan([ action |-> "detectCaptchas", found |-> found ],
                     DetectCaptchas(assistant, found, 1))

\* The mutation observer reports a captcha element added to the document,
\* be it one the script is handling already.
CaptchaNodeAdded ==
    \E node \in CaptchaElements, page \in Pages :
        /\ assistant.phase = "observing"
        /\ WithinReach(HandleDOMMutations(assistant, node, page))
        /\ ScriptRan([ action |-> "handleDOMMutations", node |-> node ],
                     HandleDOMMutations(assistant, node, page))

CaptchaAnswered ==
    \E i \in DOMAIN assistant.answers :
        /\ assistant.answers[i].from \in CaptchaElements
        /\ Answered(i, HandleCaptchaDetected(assistant,
                                             assistant.answers[i].from,
                                             assistant.answers[i].response))

\* The page's submit event reaches the listener observePage registered.
FormSubmitted ==
    /\ assistant.phase = "observing"
    /\ WithinReach(FormSubmitStarted(assistant))
    /\ ScriptRan([ action |-> "submit" ], FormSubmitStarted(assistant))

FormAnswered ==
    \E i \in DOMAIN assistant.answers :
        /\ assistant.answers[i].from = "form"
        /\ Answered(i, HandleFormSubmit(assistant,
                                        assistant.answers[i].response))

\* A click on a button of an open confirmation dialog.
DialogClick(i, confirmed) ==
    ScriptRan([ action |-> "confirmAction", element |-> assistant.dialogs[i],
                confirmed |-> confirmed ],
              ConfirmActionResolved(assistant, i, confirmed))

ConfirmClicked ==
    \E i \in DOMAIN assistant.dialogs :
        /\ assistant.phase = "observing"
        /\ DialogClick(i, "true")

CancelClicked ==
    \E i \in DOMAIN assistant.dialogs :
        /\ assistant.phase = "observing"
        /\ DialogClick(i, "false")

SpecContent ==
    Init /\ [][ \/ ChangeMode
                \/ SetCaptchaMode
                \/ SetFormAutoSubmit
                \/ ScriptRequestHandled
                \/ AssistantInitialize
                \/ CaptchaDetected
                \/ CaptchaNodeAdded
                \/ CaptchaAnswered
                \/ FormSubmitted
                \/ FormAnswered
                \/ ConfirmClicked
                \/ CancelClicked
                \/ WriteCompletes ]_vars

----------------------------------------------------------------------------
(* A page's content script and a core left in advanced mode with the assist
   strategy by an earlier session *)

\* A handler run from its start to its end with nothing in between, every
\* browser call completing at once: the instance it leaves, its writes done.
RECURSIVE Finish(_, _)
Finish(msg, r) ==
    LET done == [ r.st EXCEPT !.stored = ApplyWrites(@, r.st.writes),
                              !.writes = <<>> ]
    IN  IF Suspended(r)
        THEN Finish(msg, Continue(msg, [ done EXCEPT !.at = r.value.resume ]))
        ELSE [ done EXCEPT !.at = "start" ]

\* An earlier session's request, handled alone, Math.random() returning the
\* draws of tape.
Handled(msg, s, tape) == Finish(msg, Continue(msg, [ s EXCEPT !.rnd = tape ]))

InitAssist ==
    LET fresh == Initialize(Constructed(<<>>, InitialCookies))
        update == [ action |-> "UPDATE_CONFIG", configKey |-> "challengeStrategy",
                    value |-> "assist" ]
        change == [ action |-> "CHANGE_MODE", newMode |-> "advanced",
                    justification |-> "test" ]
    IN  \E first \in RandomTapes(Consumed(Handled(update, fresh, FullTape))) :
        \E second \in RandomTapes(Consumed(Handled(change,
                                       Handled(update, fresh, first), FullTape))) :
        LET s == Initialize(Constructed(
                     Handled(change, Handled(update, fresh, first), second).stored,
                     InitialCookies))
        IN
        /\ NamedInOrder(s.auditLog)
        /\ mode = s.mode
        /\ config = s.config
        /\ credentials = s.credentials
        /\ auditLog = s.auditLog
        /\ captchaProviders = s.captchaProviders
        /\ stored = s.stored
        /\ cookies = s.cookies
        /\ clock = 0
        /\ req = [ action |-> "none" ]
        /\ resp = [ sent |-> "init" ]
        /\ assistant = ConstructedAssistant
        /\ trail = AuditTrailConstructed
        /\ pending = NothingPending

\* The interval callback of detectChallenges runs over a document whose text
\* holds a challenge indicator.
ChallengeDetected ==
    \E page \in Pages :
        /\ assistant.phase = "observing"
        /\ ShowsChallenge(page)
        /\ "challenge" \notin assistant.activeAssistance
        /\ WithinReach(ChallengeHandlingStarted(assistant, page))
        /\ ScriptRan([ action |-> "detectChallenges", page |-> page ],
                     ChallengeHandlingStarted(assistant, page))

\* The mutation observer reports a node that shows challenge text.
ChallengeNodeAdded ==
    \E node \in (CaptchaElements \cup {"interstitial"}) \ CaptchaElements, page \in Pages :
        /\ assistant.phase = "observing"
        /\ "challenge" \notin assistant.activeAssistance
        /\ WithinReach(HandleDOMMutations(assistant, node, page))
        /\ ScriptRan([ action |-> "handleDOMMutations", node |-> node,
                       page |-> page ],
                     HandleDOMMutations(assistant, node, page))

ChallengeAnswered ==
    \E i \in DOMAIN assistant.answers :
        /\ assistant.answers[i].from = "challenge"
        /\ Answered(i, HandleChallengeDetected(assistant,
                                               assistant.answers[i].response))

SpecChallenge ==
    InitAssist /\ [][ \/ ChangeMode
                      \/ ChangeModeFurther
                      \/ ScriptRequestHandled
                      \/ AssistantInitialize
                      \/ ChallengeDetected
                      \/ ChallengeNodeAdded
                      \/ ChallengeAnswered
                      \/ WriteCompletes ]_vars

----------------------------------------------------------------------------
(* handleCredentials called with its own sub-actions *)

CallHandleCredentials(msg) ==
    \E tape \in RandomTapes(Consumed(
                   HandleCredentials(msg, [ Cur EXCEPT !.rnd = FullTape ]).st)) :
        /\ Start(msg, Settle(HandleCredentials(msg, [ Cur EXCEPT !.rnd = tape ])))
        /\ UNCHANGED <<assistant, trail>>

StoreCredential ==
    \E msg \in { [ action |-> "store", site |-> "site.example", username |-> u.name,
                 password |-> u.password ] :
                 u \in { [ name |-> "alice", password |-> "hunter2" ],
                         [ name |-> "bob", password |-> "s3cret" ] } } \cup { [ action |-> "store", site |-> "site.example", username |-> "alice",
                                                                              password |-> "pass-U+20AC" ] } :
        /\ clock < MaxSteps
        /\ CallHandleCredentials(msg)

RetrieveCredential ==
    \E msg \in { [ action |-> "retrieve", site |-> site ] :
                 site \in {"site.example", "other.example"} } :
        /\ clock < MaxSteps
        /\ CallHandleCredentials(msg)

SpecCredentials ==
    Init /\ [][ \/ StoreCredential
                \/ RetrieveCredential
                \/ UpdateConfig
                \/ WriteCompletes ]_vars

----------------------------------------------------------------------------
(* A core started with the automated captcha level already configured *)

InitAutomated ==
    LET fresh == Initialize(Constructed(<<>>, InitialCookies))
        update == [ action |-> "UPDATE_CONFIG", configKey |-> "captchaMode",
                    value |-> "automated" ]
    IN  \E tape \in RandomTapes(Consumed(Handled(update, fresh, FullTape))) :
        LET s == Initialize(Constructed(Handled(update, fresh, tape).stored,
                                        InitialCookies))
        IN
        /\ NamedInOrder(s.auditLog)
        /\ mode = s.mode
        /\ config = s.config
        /\ credentials = s.credentials
        /\ auditLog = s.auditLog
        /\ captchaProviders = s.captchaProviders
        /\ stored = s.stored
        /\ cookies = s.cookies
        /\ clock = 0
        /\ req = [ action |-> "none" ]
        /\ resp = [ sent |-> "init" ]
        /\ assistant = ConstructedAssistant
        /\ trail = AuditTrailConstructed
        /\ pending = NothingPending

SpecAutomated ==
    InitAutomated /\ [][ \/ SolveCaptchaRequest
                         \/ ChangeMode
                         \/ GetStatus
                         \/ WriteCompletes ]_vars

----------------------------------------------------------------------------
(* The core restarted over its storage area *)

\* The service worker is stopped and a new instance is constructed and
\* initialized over the storage area and the browser's cookies as they are.
\* The handlers suspended at an await end with the worker and answer
\* nothing; of the storage writes under way the first k were carried out by
\* the browser before the new instance reads the area, the others are lost.
Restart ==
    \E k \in 0..Len(pending.writes) :
        /\ clock < MaxSteps
        /\ req.action # "restart"
        /\ Install(Initialize(Constructed(
               ApplyWrites(stored, SubSeq(pending.writes, 1, k)), cookies)))
        /\ pending' = NothingPending
        /\ req' = [ action |-> "restart", kept |-> k ]
        /\ resp' = [ sent |-> "callback" ]
        /\ clock' = clock + 1
        /\ UNCHANGED <<assistant, trail>>

SpecRestart ==
    Init /\ [][ \/ ChangeMode
                \/ UpdateConfig
                \/ SetTermsAccepted
                \/ AcceptTerms
                \/ HandleChallenge
                \/ StoreCredential
                \/ Restart
                \/ WriteCompletes ]_vars

----------------------------------------------------------------------------
(* Mode changes and challenge requests alone, with their writes *)

SpecAsync ==
    Init /\ [][ \/ ChangeMode
                \/ ChangeModeFurther
                \/ HandleChallenge
                \/ WriteCompletes ]_vars

----------------------------------------------------------------------------
(* Handlers that log after their await, with mode changes in between *)

SpecSuspended ==
    Init /\ [][ \/ ChangeMode
                \/ AcceptTerms
                \/ StoreCredential
                \/ WriteCompletes ]_vars

----------------------------------------------------------------------------
(* The risk scorer over every configuration snapshot *)

\* Every snapshot over the values the settings are documented to take.
ConfigSnapshots ==
    [ userConfirmation    : {"true", "false", "once"},
      actionLogging       : {"true", "false"},
      rateLimitStrategy   : {"respectful", "aggressive", "unrestricted"},
      captchaMode         : {"manual", "assisted", "automated"},
      formAutoSubmit      : {"true", "false"},
      sessionVerification : {"true", "false"},
      fingerprintMethod   : {"normalization", "randomization", "spoofing"},
      proxyEnabled        : {"true", "false"},
      challengeStrategy   : {"wait", "assist", "bypass"},
      auditStorage        : {"local", "none", "encrypted"},
      termsAccepted       : {"true", "false"} ]

\* What an earlier session left in the storage area: nothing, or the
\* acceptance of the terms and its audit event.
EarlierSessions ==
    LET fresh == Initialize(Constructed(<<>>, InitialCookies))
        accept == [ action |-> "ACCEPT_TERMS", accepted |-> "true" ]
    IN  {fresh.stored}
        \cup { Handled(accept, fresh, tape).stored :
                  tape \in RandomTapes(Consumed(Handled(accept, fresh, FullTape))) }

\* The core started over a storage area holding a snapshot and a mode.
InitRisk ==
    \E snap \in ConfigSnapshots, m \in Modes, st \in EarlierSessions :
        LET area == StorageSet(StorageSet(st, "config", snap), "mode", m)
            s == Initialize(Constructed(area, InitialCookies))
        IN  /\ NamedInOrder(s.auditLog)
            /\ mode = s.mode
            /\ config = s.config
            /\ credentials = s.credentials
            /\ auditLog = s.auditLog
            /\ captchaProviders = s.captchaProviders
            /\ stored = s.stored
            /\ cookies = s.cookies
            /\ clock = 0
            /\ req = [ action |-> "none" ]
            /\ resp = [ sent |-> "init" ]
            /\ assistant = ConstructedAssistant
            /\ trail = AuditTrailConstructed
            /\ pending = NothingPending

\* The level is asked for: GET_STATUS is delivered to the started core, whose
\* handleStatusRequest calls getSafetyLevel().
ScoreRisk ==
    /\ req.action = "none"
    /\ Deliver([ action |-> "GET_STATUS" ])

SpecRisk == InitRisk /\ [][ScoreRisk]_vars

----------------------------------------------------------------------------
(* Vocabulary of the properties *)

\* The response a thrown Error(m) becomes.
Failure(m) == [ sent |-> "object", body |-> [ success |-> FALSE, error |-> m ] ]

IsFailure(r) == r.sent = "object" /\ r.body.success = FALSE

\* What the sender can tell apart: answered or not, success, error, action.
Outcome(r) ==
    IF r.sent # "object" THEN <<r.sent>>
    ELSE << "object", r.body.success,
            IF "error" \in DOMAIN r.body THEN r.body.error ELSE "-",
            IF "action" \in DOMAIN r.body THEN r.body.action ELSE "-" >>

\* The value persisted under a key, if any.
Persisted(st, key) == IF key \in DOMAIN st THEN <<st[key]>> ELSE <<>>

IsPrefix(a, b) == Len(a) <= Len(b) /\ SubSeq(b, 1, Len(a)) = a

\* The positions of the events logged at time t.
EventsAt(log, t) == { i \in 1..Len(log) : log[i].timestamp = t }

LowModes == {"standard", "advanced"}

\* The completions of the browser calls a handler waits for.
Completions == {"storageSet", "tabsGet"}

\* The request whose handler ran in the step that left r: the one delivered,
\* or the one a completion resumed.
Request(r) == IF r.action \in Completions THEN r.call ELSE r

IsMessage(r) ==
    r.action \notin {"none", "onBeforeSendHeaders", "onHeadersReceived",
                     "storageSet", "tabsGet", "clearAuditLog", "restart",
                     "confirmAction", "getSafetyLevel", "logAction",
                     "exportAuditLog", "sendMessageCallback",
                     "detectCaptchas", "detectChallenges",
                     "handleDOMMutations", "submit"}

\* The handler is suspended at a browser call and has passed no response yet.
Pending(r) == r.sent = "pending"

\* The storage writes of a key that are under way.
WritesOf(writes, key) == SelectSeq(writes, LAMBDA w : w.key = key)

GateActions == {"HANDLE_CHALLENGE", "SOLVE_CAPTCHA", "SYNC_SESSION", "FILL_FORM"}

OwnershipError == "Cannot sync sessions across different windows without verification"

----------------------------------------------------------------------------
(* Properties *)

\* C1: below research mode, solve-captcha at captchaMode = automated and
\* handle-challenge at challengeStrategy = bypass are answered with the
\* insufficient-privilege failure, and no solve or bypass attempt is recorded
\* or reported.
C1_ResearchOnlyDenied ==
    /\ ( /\ req.action = "SOLVE_CAPTCHA"
         /\ config.captchaMode = "automated"
         /\ mode \in LowModes )
       => /\ resp = Failure("Automated CAPTCHA solving requires research mode")
          /\ \A i \in EventsAt(auditLog, clock - 1) :
                auditLog[i].action # "captcha_solve_attempt"
    /\ ( /\ req.action = "HANDLE_CHALLENGE"
         /\ config.challengeStrategy = "bypass"
         /\ mode \in LowModes )
       => /\ resp = Failure("Challenge bypass requires research mode")
          /\ \A i \in EventsAt(auditLog, clock - 1) :
                auditLog[i].action # "challenge_bypass_attempt"

C1_Witness ==
    /\ req.action = "HANDLE_CHALLENGE"
    /\ config.challengeStrategy = "bypass"
    /\ mode = "advanced"
    /\ resp = Failure("Challenge bypass requires research mode")

\* C2 (as claimed): a change-mode request whose justification is empty or
\* missing is never answered with success, and no step of its handling
\* changes the in-memory or the persisted mode.
C2_EmptyJustificationRejected ==
    [][ ( /\ Request(req').action = "CHANGE_MODE"
          /\ ~Truthy(Request(req').justification) )
        => /\ Pending(resp') \/ IsFailure(resp')
           /\ mode' = mode
           /\ Persisted(stored', "mode") = Persisted(stored, "mode") ]_vars

\* C3: a sync-session between tabs of different windows, delivered with
\* sessionVerification on, stays unanswered while its tab lookups are under
\* way and is answered with the ownership failure when the second one
\* completes; no step of it changes a cookie jar, in every mode.
C3_OwnershipMismatchFails ==
    [][ ( /\ Request(req').action = "SYNC_SESSION"
          /\ Request(req').sourceTabId \in TabIds
          /\ Request(req').targetTabId \in TabIds
          /\ TabWindow[Request(req').sourceTabId]
                # TabWindow[Request(req').targetTabId]
          /\ req'.action = "SYNC_SESSION" => Truthy(config.sessionVerification) )
        => /\ cookies' = cookies
           /\ resp' = IF req'.action = "tabsGet" /\ req'.at = "target_tab"
                      THEN Failure(OwnershipError)
                      ELSE [ sent |-> "pending" ] ]_vars

C3_Witness ==
    /\ req.action = "tabsGet"
    /\ req.call.action = "SYNC_SESSION"
    /\ req.call.targetTabId = 3
    /\ mode = "research"
    /\ resp = Failure(OwnershipError)

\* C4 (as claimed): a credential request without the consent flag is answered
\* with a failure, and the credential map, its persisted copy and the audit
\* log are unchanged.
C4_MissingConsentRejected ==
    [][ ( /\ req'.action \in {"MANAGE_CREDENTIALS", "store"}
          /\ ~Truthy(req'.userConsent) )
        => /\ IsFailure(resp')
           /\ credentials' = credentials
           /\ Persisted(stored', "credentials") = Persisted(stored, "credentials")
           /\ auditLog' = auditLog ]_vars

\* C5 (as claimed), for the requests answered in the step that delivers them:
\* with logging on, a handle-challenge, solve-captcha, sync-session or
\* fill-form request appends exactly one audit event.
C5_ExactlyOneEventPerGate ==
    [][ ( /\ req'.action \in GateActions
          /\ ~Pending(resp')
          /\ Truthy(config.actionLogging) )
        => Len(auditLog') = Len(auditLog) + 1 ]_vars

\* C6 (as claimed): every message delivered to the listener is answered with
\* a structured response object, at once or when its handler is resumed.
C6_EveryMessageAnswered ==
    IsMessage(Request(req)) => (Pending(resp) \/ resp.sent = "object")

\* C7 (as claimed): with logging on, every request answered with an error
\* appends, in the step that answers it, an audit event that carries that
\* error.
C7_EveryErrorAudited ==
    [][ ( /\ IsMessage(Request(req'))
          /\ IsFailure(resp')
          /\ "error" \in DOMAIN resp'.body
          /\ Truthy(config.actionLogging) )
        => /\ Len(auditLog') > Len(auditLog)
           /\ "error" \in DOMAIN auditLog'[Len(auditLog')].details
           /\ auditLog'[Len(auditLog')].details.error = resp'.body.error ]_vars

\* C8: the in-memory audit log is append-only: across every message, every
\* interception callback and every completion of a browser call the old log
\* is a prefix of the new one.
C8_AuditLogAppendOnly ==
    [][ IsPrefix(auditLog, auditLog') ]_vars

C8_Witness ==
    /\ Len(auditLog) >= 2
    /\ auditLog[1].timestamp < auditLog[Len(auditLog)].timestamp

\* What the handler that ran in the step would have answered with logging on.
WithLoggingOn(r) ==
    LET on == [ Cur EXCEPT !.config.actionLogging = "true", !.rnd = FullTape ]
    IN  IF r.action \in Completions
        THEN Settle(Continue(r.call, [ on EXCEPT !.at = r.at ])).resp
        ELSE OnMessage(r, on).resp

\* C9: while actionLogging is off no step changes the audit log or issues a
\* write of it, so that its persisted copy changes only when a write issued
\* before completes; and every handler gives the outcome it would give from
\* the same state with actionLogging on.
C9_LoggingOffIsNoOp ==
    [][ ~Truthy(config.actionLogging)
        => /\ auditLog' = auditLog
           /\ Len(WritesOf(pending'.writes, "auditLog"))
                 <= Len(WritesOf(pending.writes, "auditLog"))
           /\ Persisted(stored', "auditLog") # Persisted(stored, "auditLog")
                 => req'.action = "storageSet" /\ req'.key = "auditLog"
           /\ IsMessage(Request(req'))
                 => Outcome(resp') = Outcome(WithLoggingOn(req'))
      ]_vars

C9_Witness ==
    /\ ~Truthy(config.actionLogging)
    /\ req.action = "HANDLE_CHALLENGE"
    /\ resp.sent = "object"
    /\ resp.body.success
    /\ Len(auditLog) = 1

\* C10 (as claimed): export-audit always answers success with the whole
\* in-memory log, the format marker and the export time.
C10_ExportAlwaysSucceeds ==
    req.action = "EXPORT_AUDIT"
    => resp = [ sent |-> "object",
                body |-> [ success    |-> TRUE,
                           auditLog   |-> auditLog,
                           format     |-> "JSON",
                           exportedAt |-> clock - 1 ] ]

\* C10 (amended): unless auditStorage is 'none', export-audit answers success
\* with the whole in-memory log in append order, format 'JSON' and the export
\* time; when auditStorage is 'none' it answers the failure 'Audit logging is
\* disabled'; in both cases the log is left unchanged.
C10_ExportUnlessStorageNone ==
    [][ req'.action = "EXPORT_AUDIT"
        => /\ auditLog' = auditLog
           /\ resp' = IF config.auditStorage = "none"
                      THEN [ sent |-> "object",
                             body |-> [ success |-> FALSE,
                                        message |-> "Audit logging is disabled" ] ]
                      ELSE [ sent |-> "object",
                             body |-> [ success    |-> TRUE,
                                        auditLog   |-> auditLog,
                                        format     |-> "JSON",
                                        exportedAt |-> clock ] ] ]_vars

C10_Witness ==
    /\ req.action = "EXPORT_AUDIT"
    /\ resp.sent = "object"
    /\ resp.body.success
    /\ Len(auditLog) >= 2
    /\ resp.body.auditLog = auditLog

RiskWeights ==
    [ userConfirmation    |-> ("true" :> 0) @@ ("once" :> 0) @@ ("false" :> 3),
      actionLogging       |-> ("true" :> 0) @@ ("false" :> 2),
      rateLimitStrategy   |-> ("respectful" :> 0) @@ ("aggressive" :> 1)
                              @@ ("unrestricted" :> 2),
      captchaMode         |-> ("manual" :> 0) @@ ("assisted" :> 1)
                              @@ ("automated" :> 2),
      fingerprintMethod   |-> ("normalization" :> 0) @@ ("randomization" :> 1)
                              @@ ("spoofing" :> 2),
      sessionVerification |-> ("true" :> 0) @@ ("false" :> 2),
      challengeStrategy   |-> ("wait" :> 0) @@ ("assist" :> 1) @@ ("bypass" :> 2),
      formAutoSubmit      |-> ("true" :> 1) @@ ("false" :> 0) ]

ScoredSettings == DOMAIN RiskWeights

Weight(cfg, k) == RiskWeights[k][cfg[k]]

\* The sum of the table's weights but for the form auto-submit one.
OtherWeights(cfg) ==
      Weight(cfg, "userConfirmation") + Weight(cfg, "actionLogging")
    + Weight(cfg, "rateLimitStrategy") + Weight(cfg, "captchaMode")
    + Weight(cfg, "fingerprintMethod") + Weight(cfg, "sessionVerification")
    + Weight(cfg, "challengeStrategy")

LevelOfSum(n) == IF n <= 2 THEN "LOW" ELSE IF n <= 8 THEN "MEDIUM" ELSE "HIGH"

\* The level was asked for; Level is the one answered.
IsScore(r) == r.action = "GET_STATUS"

Level(r) == r.body.status.safetyLevel

\* C12 as stated: the level is the one of the summed weights, the form
\* auto-submit weight counting only where confirmation is disabled.
C12_AutoSubmitWeightWithoutConfirmation ==
    IsScore(req) =>
        Level(resp) = LevelOfSum(OtherWeights(config)
            + (IF config.formAutoSubmit = "true" /\ config.userConfirmation = "false"
               THEN 1 ELSE 0))

\* C12: over every snapshot of the enumerated domains (userConfirmation true,
\* false or 'once', which is not disabled) the level is the one of
\* the summed weights (<= 2 LOW, 3..8 MEDIUM, >= 9 HIGH), the form auto-submit
\* weight counting whenever formAutoSubmit is on, with or without confirmation;
\* the all-defaults snapshot sums to 0 and is LOW.
C12_LevelIsThatOfSummedWeights ==
    IsScore(req) =>
        /\ Level(resp) = LevelOfSum(OtherWeights(config) + Weight(config, "formAutoSubmit"))
        /\ (\A k \in ScoredSettings : config[k] = DefaultConfig[k])
              => /\ OtherWeights(config) + Weight(config, "formAutoSubmit") = 0
                 /\ Level(resp) = "LOW"

\* Auto-submit on with confirmation on, the other weights summing to 2.
C12_Witness ==
    /\ IsScore(req)
    /\ config.formAutoSubmit = "true" /\ config.userConfirmation = "true"
    /\ OtherWeights(config) = 2
    /\ Level(resp) = "MEDIUM"

\* The instances that hold the eight scored settings of s and any mode, any
\* value of the three settings that are not scored, credentials or none, and
\* the audit log of s or an empty one.
SameScored(s) ==
    { [ s EXCEPT !.mode = m,
                 !.config = [ @ EXCEPT !.proxyEnabled = p, !.auditStorage = a,
                                       !.termsAccepted = t ],
                 !.credentials = c,
                 !.auditLog = l ] :
        m \in Modes, p \in {"true", "false"}, a \in {"local", "none", "encrypted"},
        t \in {"true", "false"},
        c \in { <<>>, ("site.example" :> "encrypted") },
        l \in { <<>>, s.auditLog } }

\* C13: the step in which the level is computed and reported changes nothing
\* the core holds or has stored and starts no write, and the level is the one
\* getSafetyLevel gives on every instance with the same eight scored
\* settings, whatever its mode, proxyEnabled, auditStorage, termsAccepted,
\* credentials and audit log are.
C13_ScorerIsPure ==
    [][ IsScore(req')
        => /\ UNCHANGED <<mode, config, credentials, auditLog, captchaProviders,
                          stored, cookies, pending>>
           /\ \A other \in SameScored(Cur) :
                  GetSafetyLevel(other) = Level(resp') ]_vars

\* A level computed in research mode with a proxy, terms accepted and a
\* non-empty audit log.
C13_Witness ==
    /\ IsScore(req) /\ Level(resp) = "HIGH"
    /\ mode = "research" /\ config.proxyEnabled = "true"
    /\ auditLog # <<>>

\* A request answered with success: true.
Succeeded(r) == r.sent = "object" /\ r.body.success = TRUE

\* C14: the safetyLevel in the answer to get-status, and in the answer to a
\* successful change-mode or update-config, is the level of the configuration
\* the core holds when the answer is passed, whatever was handled while the
\* request's write was under way.
C14_ReportedLevelIsLive ==
    /\ (req.action = "GET_STATUS" /\ Succeeded(resp))
          => resp.body.status.safetyLevel = GetSafetyLevel(Cur)
    /\ (Request(req).action \in {"CHANGE_MODE", "UPDATE_CONFIG"} /\ Succeeded(resp))
          => resp.body.safetyLevel = GetSafetyLevel(Cur)

\* The update that turned logging off, answered with the level another update,
\* handled while its write was under way, has moved.
C14_Witness ==
    /\ req.action = "storageSet"
    /\ req.call.action = "UPDATE_CONFIG" /\ req.call.configKey = "actionLogging"
    /\ Succeeded(resp)
    /\ config.sessionVerification = "false"
    /\ resp.body.safetyLevel = "MEDIUM"
    /\ auditLog[Len(auditLog)].safetyLevel = "LOW"

\* The settings each gate handler consults.
Consulted(action) ==
    CASE action = "SOLVE_CAPTCHA"    -> {"captchaMode"}
      [] action = "HANDLE_CHALLENGE" -> {"challengeStrategy"}
      [] action = "SYNC_SESSION"     -> {"sessionVerification"}
      [] action = "FILL_FORM"        -> {"formAutoSubmit", "userConfirmation"}

RiskiestConfig ==
    [ userConfirmation    |-> "false",
      actionLogging       |-> "false",
      rateLimitStrategy   |-> "unrestricted",
      captchaMode         |-> "automated",
      formAutoSubmit      |-> "true",
      sessionVerification |-> "false",
      fingerprintMethod   |-> "spoofing",
      proxyEnabled        |-> "true",
      challengeStrategy   |-> "bypass",
      auditStorage        |-> "none",
      termsAccepted       |-> "true" ]

\* Configurations that agree with cfg on the consulted settings and are the
\* safest, or the riskiest, on the others.
SameConsulted(cfg, action) ==
    { [ k \in ConfigKeys |-> IF k \in Consulted(action) THEN cfg[k] ELSE base[k] ] :
        base \in {DefaultConfig, RiskiestConfig} }

\* What the handler that ran in the step that left r gives on the instance s.
Rerun(r, s) ==
    IF r.action \in Completions
    THEN Settle(Continue(r.call, [ s EXCEPT !.at = r.at, !.rnd = FullTape ])).resp
    ELSE OnMessage(r, [ s EXCEPT !.rnd = FullTape ]).resp

\* C15: each step of a gate request has the same outcome in every state of
\* the same mode that agrees on the settings its handler consults, whatever
\* the safety levels of the states are.
C15_GateIgnoresRiskLevel ==
    [][ Request(req').action \in GateActions
        => \A alt \in SameConsulted(config, Request(req').action) :
              Outcome(Rerun(req', [ Cur EXCEPT !.config = alt ])) = Outcome(resp') ]_vars

\* An auto-submit fill with confirmation off at the MEDIUM level, which has
\* the outcome of the same request at the HIGH level.
C15_Witness ==
    /\ req.action = "FILL_FORM" /\ Truthy(req.autoSubmit)
    /\ config.formAutoSubmit = "true" /\ config.userConfirmation = "false"
    /\ GetSafetyLevel(Cur) = "MEDIUM"
    /\ \E alt \in SameConsulted(config, "FILL_FORM") : GetSafetyLevel([ Cur EXCEPT !.config = alt ]) = "HIGH"
    /\ Succeeded(resp) /\ resp.body.action = "fill_only"

\* C16: an update-config request whose key is not a setting name is answered
\* with a failure and leaves the configuration, its persisted copy and the
\* mode as they were.
C16_UnknownKeyRejected ==
    [][ (req'.action = "UPDATE_CONFIG" /\ req'.configKey \notin ConfigKeys)
        => /\ IsFailure(resp')
           /\ config' = config
           /\ Persisted(stored', "config") = Persisted(stored, "config")
           /\ mode' = mode ]_vars

\* An unknown key rejected after an earlier update had been persisted.
C16_Witness ==
    /\ req.action = "UPDATE_CONFIG" /\ req.configKey = "unknownKey"
    /\ resp = Failure("Invalid configuration key")
    /\ config # DefaultConfig
    /\ Persisted(stored, "config") = <<config>>

\* C17: a change-mode request whose target is none of standard, advanced,
\* research is answered with a structured failure, and the mode and the
\* persisted mode are as they were.
C17_InvalidModeRejected ==
    [][ (req'.action = "CHANGE_MODE" /\ req'.newMode \notin Modes)
        => /\ resp' = Failure("Invalid mode")
           /\ mode' = mode
           /\ Persisted(stored', "mode") = Persisted(stored, "mode") ]_vars

\* An invalid target rejected by a core in research mode.
C17_Witness ==
    /\ req.action = "CHANGE_MODE" /\ req.newMode = "bogus"
    /\ IsFailure(resp)
    /\ mode = "research" /\ Persisted(stored, "mode") = <<"research">>

\* C18: the mode changes only in the step that delivers a change-mode request
\* with a valid target, the request that is later answered with success, and
\* becomes that target; every other request, every interceptor callback and
\* every completion of a browser call leaves it unchanged.
C18_ModeChangesOnlyByChangeMode ==
    [][ /\ mode' # mode
           => /\ req'.action = "CHANGE_MODE"
              /\ req'.newMode \in Modes
              /\ mode' = req'.newMode
        /\ (Request(req').action = "CHANGE_MODE" /\ ~Pending(resp'))
           => (Succeeded(resp') <=> Request(req').newMode \in Modes) ]_vars

\* Another request handled, and answered, by a core put in research mode.
C18_Witness ==
    /\ mode = "research"
    /\ req.action \in {"UPDATE_CONFIG", "ACCEPT_TERMS", "onHeadersReceived"}
    /\ clock = MaxSteps

\* C19 (as claimed): when a change-mode delivered with logging enabled is
\* answered with success, the mode is the requested one and the persisted
\* mode is the in-memory mode; the step that delivered it appended exactly one
\* event, a mode_change from the mode before to the requested mode that
\* carries a justification.
C19_ModeChangeRecorded ==
    [][ /\ ( /\ req'.action = "CHANGE_MODE" /\ req'.newMode \in Modes
             /\ Truthy(config.actionLogging) )
           => /\ Len(auditLog') = Len(auditLog) + 1
              /\ IsPrefix(auditLog, auditLog')
              /\ LET e == auditLog'[Len(auditLog')]
                 IN  /\ e.action = "mode_change"
                     /\ e.details.from = mode
                     /\ e.details.to = req'.newMode
                     /\ Truthy(e.details.justification)
                     /\ Truthy(req'.justification)
                           => e.details.justification = req'.justification
        /\ (Request(req').action = "CHANGE_MODE" /\ Succeeded(resp'))
           => /\ mode' = Request(req').newMode
              /\ Persisted(stored', "mode") = <<mode'>> ]_vars

\* C20: when the user declines the confirmation asked at the assisted level,
\* the request ends as cancelled and one audit event recording the
\* cancellation is appended; nothing is solved and the element is not
\* handled again.
C20_DeclineIsCancelledAndAudited ==
    [][ ( /\ req'.action = "confirmAction"
          /\ req'.element \in CaptchaElements
          /\ req'.confirmed = "false" )
        => /\ assistant'.results[req'.element] = "cancelled"
           /\ Len(auditLog') = Len(auditLog) + 1
           /\ \A i \in 1..Len(auditLog') :
                  auditLog'[i].action # "captcha_solve_attempt"
           /\ req'.element \in assistant'.activeAssistance ]_vars

\* C21: a captcha request whose confirmation the user has confirmed, and whose
\* handling by the content script has ended, has been submitted to the solving
\* step, and the attempt is in the audit log.
C21_ConfirmedRequestIsSolved ==
    \A element \in CaptchaElements :
        ( /\ element \in DOMAIN assistant.choices
          /\ assistant.choices[element] = "true"
          /\ element \in DOMAIN assistant.results )
        => \E i \in 1..Len(auditLog) : auditLog[i].action = "captcha_solve_attempt"

\* The events a step appended to the audit log.
Appended(log, newLog) == { newLog[i] : i \in (Len(log) + 1)..Len(newLog) }

EffectEvents == {"captcha_solve_attempt", "challenge_bypass_attempt"}

\* C22: with captchaMode = manual a solve-captcha request, and with
\* challengeStrategy = wait a handle-challenge request, is answered with the
\* notify_user outcome in every mode, and no solving or bypass attempt is made.
C22_ManualLevelOnlyNotifies ==
    [][ ( \/ req'.action = "SOLVE_CAPTCHA" /\ config.captchaMode = "manual"
          \/ req'.action = "HANDLE_CHALLENGE" /\ config.challengeStrategy = "wait" )
        => /\ Succeeded(resp')
           /\ resp'.body.action = "notify_user"
           /\ \A e \in Appended(auditLog, auditLog') : e.action \notin EffectEvents
           /\ cookies' = cookies ]_vars

\* A manual-level captcha request answered with notify_user in research mode.
C22_Witness ==
    /\ req.action = "SOLVE_CAPTCHA" /\ mode = "research"
    /\ config.captchaMode = "manual"
    /\ Succeeded(resp) /\ resp.body.action = "notify_user"

\* The fields of a record that hold a credential's plaintext.
PlaintextFields(record) == DOMAIN record \cap {"username", "password"}

\* C23: neither the persisted credential map nor the persisted audit log holds
\* a plaintext username or password; a persisted credential is the encrypted
\* payload with its storage time and encryption method.
C23_NoPlaintextPersisted ==
    /\ \A creds \in { Persisted(stored, "credentials")[i] :
                        i \in 1..Len(Persisted(stored, "credentials")) } :
          \A site \in DOMAIN creds :
              DOMAIN creds[site] = {"encrypted", "storedAt", "encryption"}
    /\ \A log \in { Persisted(stored, "auditLog")[i] :
                      i \in 1..Len(Persisted(stored, "auditLog")) } :
          \A i \in 1..Len(log) : PlaintextFields(log[i].details) = {}

\* The failures of a request denied for insufficient privilege.
PrivilegeErrors ==
    { "Automated CAPTCHA solving requires research mode",
      "Challenge bypass requires research mode" }

Denied(r) ==
    /\ IsFailure(r)
    /\ "error" \in DOMAIN r.body
    /\ r.body.error \in PrivilegeErrors

\* C24: each time a request is denied, the mode, the configuration, the
\* credentials, their persisted copies and the cookies stay as they were, and
\* the attempt appends one audit event of its own when logging is enabled (and
\* none when it is not).
C24_DenialOnlyAppendsItsEvent ==
    [][ Denied(resp')
        => /\ mode' = mode /\ config' = config /\ credentials' = credentials
           /\ cookies' = cookies /\ captchaProviders' = captchaProviders
           /\ \A key \in {"mode", "config", "credentials"} :
                  Persisted(stored', key) = Persisted(stored, key)
           /\ IF Truthy(config.actionLogging)
              THEN /\ Len(auditLog') = Len(auditLog) + 1
                   /\ IsPrefix(auditLog, auditLog')
                   /\ auditLog'[Len(auditLog')].timestamp = clock
              ELSE auditLog' = auditLog ]_vars

\* The same request denied a second time, each attempt with its own event.
C24_Witness ==
    /\ Denied(resp) /\ req.action = "SOLVE_CAPTCHA"
    /\ Len(auditLog) = 3
    /\ auditLog[2].action = "captcha_request"
    /\ auditLog[3].action = "captcha_request"
    /\ auditLog[2].details.provider = auditLog[3].details.provider
    /\ auditLog[2].timestamp # auditLog[3].timestamp
    /\ config.captchaMode = "automated" /\ mode = "standard"

\* C25: an automated solve-captcha request is denied for insufficient
\* privilege exactly when the mode at the time of the request is not research;
\* after a change to research the request denied before is no longer denied
\* that way.
C25_ModeCheckedAtEachRequest ==
    [][ (req'.action = "SOLVE_CAPTCHA" /\ config.captchaMode = "automated")
        => (Denied(resp') <=> mode # "research") ]_vars

\* The request denied in standard mode, the change to research justified
\* with "test", and the identical request not denied for privilege.
C25_Witness ==
    /\ req.action = "SOLVE_CAPTCHA" /\ mode = "research"
    /\ ~Denied(resp)
    /\ Len(auditLog) = 4
    /\ auditLog[2].action = "captcha_request" /\ auditLog[2].mode = "standard"
    /\ auditLog[2].details.provider = req.provider
    /\ auditLog[3].action = "mode_change"
    /\ auditLog[3].details.to = "research"
    /\ auditLog[3].details.justification = "test"
    /\ auditLog[4].action = "captcha_request" /\ auditLog[4].mode = "research"

SensitiveActions ==
    { "HANDLE_CHALLENGE", "SOLVE_CAPTCHA", "SYNC_SESSION", "FILL_FORM",
      "MANAGE_CREDENTIALS", "CHANGE_MODE" }

\* C27: while termsAccepted is false no sensitive request is answered with
\* success.
C27_NothingApprovedBeforeTerms ==
    [][ (~Truthy(config.termsAccepted) /\ req'.action \in SensitiveActions)
        => ~Succeeded(resp') ]_vars

\* C28 (as claimed): termsAccepted becomes true only in a step that handles an
\* accept-terms request with accepted = true; an accept-terms with
\* accepted = false is answered with success: false and leaves termsAccepted
\* as it was.
C28_TermsOnlyByAcceptance ==
    [][ /\ (~Truthy(config.termsAccepted) /\ Truthy(config'.termsAccepted))
            => (req'.action = "ACCEPT_TERMS" /\ Truthy(req'.accepted))
        /\ (req'.action = "ACCEPT_TERMS" /\ ~Truthy(req'.accepted))
            => /\ resp'.sent = "object" /\ resp'.body.success = FALSE
               /\ config'.termsAccepted = config.termsAccepted ]_vars

\* Every request delivered has been answered or has ended: no handler is
\* suspended at an await.
AllCompleted == \A i \in DOMAIN pending.calls : pending.calls[i].at = "done"

\* C30 as stated: a restart that follows completed requests yields the mode,
\* the configuration (termsAccepted included), the credentials and the audit
\* log the core held just before it.
C30_RestartRestoresEverything ==
    [][ (req'.action = "restart" /\ AllCompleted)
        => /\ mode' = mode /\ config' = config
           /\ credentials' = credentials /\ auditLog' = auditLog ]_vars

IsModeChangeEvent(e) == e.action = "mode_change"

\* C26: each change-mode request with a valid target, delivered while earlier
\* ones are suspended or not, makes its target the mode and appends its
\* mode_change event, from the mode before to its target, at the end of the
\* log; no other step changes the mode or removes or moves an event; and once
\* every write has completed the persisted mode and log are the in-memory
\* ones.
C26_ModeChangesInSubmissionOrder ==
    [][ /\ (req'.action = "CHANGE_MODE" /\ req'.newMode \in Modes)
           => /\ mode' = req'.newMode
              /\ Len(auditLog') = Len(auditLog) + 1
              /\ LET e == auditLog'[Len(auditLog')]
                 IN  /\ IsModeChangeEvent(e)
                     /\ e.timestamp = clock
                     /\ e.details.from = mode
                     /\ e.details.to = req'.newMode
        /\ mode' # mode => req'.action = "CHANGE_MODE"
        /\ IsPrefix(auditLog, auditLog')
        /\ (pending'.writes = <<>> /\ \E i \in DOMAIN auditLog' :
                                          IsModeChangeEvent(auditLog'[i]))
           => /\ Persisted(stored', "mode") = <<mode'>>
              /\ Persisted(stored', "auditLog") = <<auditLog'>> ]_vars

\* standard -> advanced and advanced -> research both under way at once: the
\* first request is answered after the second was applied, so its response
\* reports research, and both events are in the log in submission order.
C26_Witness ==
    /\ req.action = "storageSet"
    /\ req.call.action = "CHANGE_MODE" /\ req.call.newMode = "advanced"
    /\ Succeeded(resp) /\ resp.body.mode = "research"
    /\ \E i \in DOMAIN pending.calls :
          /\ pending.calls[i].msg.action = "CHANGE_MODE"
          /\ pending.calls[i].msg.newMode = "research"
          /\ Pending(pending.calls[i].resp)
    /\ mode = "research" /\ Len(auditLog) = 2
    /\ auditLog[1].details.to = "advanced"
    /\ auditLog[2].details.from = "advanced"
    /\ auditLog[2].details.to = "research"

\* C29 (as claimed): when a response has been passed to the sender, every
\* storage write the request made has completed.
C29_PersistedBeforeResponse ==
    \A i \in DOMAIN pending.calls :
        ~Pending(pending.calls[i].resp) => pending.calls[i].lastWrite = 0

\* C31 (as claimed): every setting of the configuration holds a value of its
\* closed enumerated domain in every reachable state.
C31_ConfigWithinDomains == config \in ConfigSnapshots

\* The ownership check of handleSessionSync lets the request through: it was
\* delivered with verification off, or its tabs are in one window.
SyncPermitted(cfg, r) ==
    \/ r.action = "SYNC_SESSION" /\ ~Truthy(cfg.sessionVerification)
    \/ /\ r.action = "tabsGet" /\ r.at = "target_tab"
       /\ TabWindow[r.call.sourceTabId] = TabWindow[r.call.targetTabId]

\* C32 (as claimed): a sync-session that passes the ownership check
\* (verification off, or both tabs in one window) copies every cookie of the
\* source tab to the target tab and answers success with their number; a
\* session_sync event is appended only when the synchronization is carried
\* out.
C32_PermittedSyncCopiesCookies ==
    [][ Request(req').action = "SYNC_SESSION"
        => LET m == Request(req')
           IN  /\ ( /\ m.sourceTabId \in TabIds
                    /\ m.targetTabId \in TabIds
                    /\ SyncPermitted(config, req') )
                  => /\ Succeeded(resp')
                     /\ resp'.body.syncedCookies = Cardinality(cookies[m.sourceTabId])
                     /\ cookies[m.sourceTabId] \subseteq cookies'[m.targetTabId]
               /\ Len(auditLog') > Len(auditLog) => Succeeded(resp') ]_vars

\* The call whose awaited write completes in this step appends an event as it
\* runs on.
LoggedOnResume(i) ==
    /\ req'.action = "storageSet"
    /\ pending.calls[i].awaiting = "storage"
    /\ pending.calls[i].awaits = 1
    /\ pending.calls[i].msg.action \in {"ACCEPT_TERMS", "store"}
    /\ Len(auditLog') = Len(auditLog) + 1

\* C33 (as claimed): the mode and safetyLevel of the event a handler appends
\* after its await are those in force when its request was submitted,
\* whatever change-mode request was handled while it was suspended.
C33_EventCarriesSubmissionMode ==
    [][ \A i \in DOMAIN pending.calls :
          LoggedOnResume(i)
            => /\ auditLog'[Len(auditLog')].mode = pending.calls[i].mode
               /\ auditLog'[Len(auditLog')].safetyLevel = pending.calls[i].safetyLevel
      ]_vars

\* C34: the content script starts human-pattern injection only while the
\* core's mode is not standard.
C34_NoInjectionInStandardMode ==
    [][ assistant'.patterns > assistant.patterns => mode' # "standard" ]_vars


\* C35: a retrieve-credential that follows a store-credential for the same
\* site returns exactly the username and password of that store.
C35_RetrieveReturnsStored ==
    [][ ( /\ req.action = "store"
          /\ req'.action = "retrieve"
          /\ req'.site = req.site )
        => /\ Succeeded(resp')
           /\ resp'.body.credentials = [ username |-> req.username,
                                         password |-> req.password ] ]_vars


\* The outcomes a solve-captcha may have without a solution.
UnsolvedOutcome(r) ==
    /\ r.sent = "object"
    /\ "solution" \notin DOMAIN r.body
    /\ \/ IsFailure(r)
       \/ /\ "action" \in DOMAIN r.body
          /\ r.body.action \in {"notify_user", "request_confirmation"}

\* C36: no provider ever has an API key and every solve-captcha request is
\* answered with notify_user, request_confirmation or a failure, never with
\* a solution.
C36_CaptchaNeverSolved ==
    /\ \A p \in DOMAIN captchaProviders : ~Truthy(captchaProviders[p].apiKey)
    /\ req.action = "SOLVE_CAPTCHA" => UnsolvedOutcome(resp)


\* C37: the in-memory mode and the persisted mode, when there is one, are
\* each one of standard, advanced and research in every reachable state.
C37_ModeWithinDomain ==
    /\ mode \in Modes
    /\ \A i \in 1..Len(Persisted(stored, "mode")) :
          Persisted(stored, "mode")[i] \in Modes

\* A change to an invalid mode was refused after research had been set and
\* persisted.
C37_Witness ==
    /\ req.action = "CHANGE_MODE"
    /\ req.newMode \notin Modes
    /\ IsFailure(resp)
    /\ mode = "research"
    /\ Persisted(stored, "mode") = <<"research">>


\* The settings and the request flag that make fill-form ask first.
AsksBeforeSubmit(cfg, msg) ==
    /\ Truthy(msg.autoSubmit)
    /\ Truthy(cfg.formAutoSubmit)
    /\ Truthy(cfg.userConfirmation)

IsLoggingUpdate(msg) ==
    msg.action = "UPDATE_CONFIG" /\ msg.configKey = "actionLogging"

\* The call whose awaited write completes in this step, and which runs on.
Resumes(i) ==
    /\ req'.action = "storageSet"
    /\ pending.calls[i].awaiting = "storage"
    /\ pending.calls[i].awaits = 1

\* C39 as stated: an update-config that turns actionLogging off while it is
\* on appends exactly one config_update event, one that turns it on while it
\* is off appends none, and no request made while logging is off leaves an
\* event, neither in the step that delivers it nor when its handler runs on
\* after an await.
C39_NoRecordOfRequestMadeWhileOff ==
    [][ /\ ( /\ IsLoggingUpdate(req')
             /\ Truthy(config.actionLogging)
             /\ ~Truthy(req'.value) )
           => /\ Len(auditLog') = Len(auditLog) + 1
              /\ auditLog'[Len(auditLog')].action = "config_update"
              /\ auditLog'[Len(auditLog')].details.key = "actionLogging"
        /\ ( /\ IsLoggingUpdate(req')
             /\ ~Truthy(config.actionLogging)
             /\ Truthy(req'.value) )
           => auditLog' = auditLog
        /\ ( /\ IsMessage(req')
             /\ ~Truthy(config.actionLogging) )
           => auditLog' = auditLog
        /\ \A i \in DOMAIN pending.calls :
              (Resumes(i) /\ ~Truthy(pending.calls[i].logging))
                 => auditLog' = auditLog ]_vars

====
